---- MODULE Spec2Model ----
(***************************************************************************)
(* Model of the Tor transcript fetch engine of YouTube-Study-Buddy:        *)
(*   TorTranscriptFetcher  (src/src/yt_study_buddy/tor_transcript_fetcher.py)*)
(*   TorExitNodeManager    (src/src/yt_study_buddy/tor_exit_manager.py)    *)
(*   TorTranscriptProvider (src/src/yt_study_buddy/transcript_provider.py) *)
(* The daily exit tracker (daily_exit_tracker.py) is imported by the       *)
(* sources but is not among them; it is modelled from section 4.1 of the   *)
(* specification.                                                          *)
(***************************************************************************)
EXTENDS Integers, Sequences, FiniteSets, TLC

\* ---------------------------------------------------------------- bounds
\* Number of distinct exit addresses the Tor network can hand out.
NumIPs ==
    3
\* Largest value controller.get_newnym_wait() reports.
MaxNewnymWait ==
    4
\* Number of worker threads.
NumWorkers ==
    2
\* Largest max_retries passed to a direct fetch_transcript call.
MaxRetriesArg ==
    2
\* Number of probed SOCKS ports on which a daemon may listen.
NumPorts ==
    4
\* Largest max_instances passed to the manager.
MaxInstancesArg ==
    5
\* Largest worker_id passed to get_fetcher_for_worker.
MaxWorkerId ==
    3
\* Largest number of _record_attempt calls in a tracker run.
MaxRecords ==
    3
\* Largest number of fetchers one worker asks the manager for.
MaxFetchers ==
    2
\* Failed allocation attempts after which the queue's time budget is spent.
MaxAllocFailures ==
    2
\* Last reading of the wall clock.
MaxClock ==
    2
\* Concurrent invocations of a Lambda handler.
NumInvocations ==
    3
\* Largest credit balance a user starts with.
MaxCredits ==
    2
\* Credits bought with the payment intent.
PurchaseCredits ==
    2
NumVideos ==
    2
NumRequests ==
    2
MaxEvents ==
    3

\* ------------------------------------------------------ program constants
\* fetch_transcript(max_retries=5)
DefaultMaxRetries ==
    5
\* rotate_tor_circuit(max_retries=3)
RotMaxRetries ==
    3
\* rotate_tor_circuit(max_rotation_attempts=5)
MaxRotationAttempts ==
    5
\* wait_time = max(controller.get_newnym_wait(), 3.0)
SettleFloor ==
    3
\* exit_ip = "unknown"
Unknown ==
    0
\* coordination_lock = getattr(self, '_coordination_lock', None)
None ==
    0
\* TorTranscriptFetcher(tor_port=9050), TorInstance(1, 9050, 9051)
DefaultSocksPort ==
    9050
\* TorTranscriptFetcher(tor_control_port=9051), TorInstance(1, 9050, 9051)
DefaultControlPort ==
    9051
\* TorExitNodeManager(port_increment=2)
DefaultPortIncrement ==
    2
\* TorExitNodeManager(max_instances=10)
DefaultMaxInstances ==
    10

IPs ==
    1..NumIPs
Identities ==
    IPs \cup {Unknown}
Workers ==
    0..(NumWorkers - 1)
NoWorker ==
    0 - 1
\* exit_ip=None
NoIp ==
    0 - 1
\* Arguments the manager is constructed with.
BaseSocksPorts ==
    {DefaultSocksPort, DefaultSocksPort + 10}
PortIncrements ==
    {1, DefaultPortIncrement}
\* SOCKS ports a daemon may listen on (a daemon is known by its SOCKS port).
SocksPorts ==
    {b + k : b \in BaseSocksPorts, k \in 0..(DefaultPortIncrement * (NumPorts - 1))}

Max2(a, b) ==
    IF a >= b THEN a ELSE b

VARIABLES
    \* ---- environment: one circuit per Tor daemon instance
    circuit,            \* circuit[p]: exit address of the circuit of the daemon at p
    lastNewnym,         \* lastNewnym[p]: "none" | "unsettled" | "settled"
    signallers,         \* signallers[p]: the workers that sent NEWNYM to the daemon at p
    newnymRace,         \* a NEWNYM was sent while the previous one was unsettled
    lockHolder,         \* lockHolder[l]: worker holding coordination lock l
    \* ---- daily exit tracker (process-wide singleton) and its JSON document
    tracker,            \* tracker[ip] = [use_count, success_count, fail_count]
    persisted,          \* the tracker document as last saved
    clock,              \* the wall clock, in ticks since the process started
    save_escalates,     \* the installed tracker's save() raises when a write fails
    at_save,            \* the in-memory map when the document was last written
    \* ---- TorExitNodeManager
    openPorts,          \* SOCKS ports accepting connections
    mgrArgs,            \* constructor arguments of the manager
    instances,          \* self.instances (<<>> before __init__ ran)
    constructed,        \* TorExitNodeManager.__init__ has returned
    mgr_out,            \* what the manager's last accessor call returned
    ip_queue,           \* the TorIPQueue: its target, queue and counters
    pulled_ips,         \* what get_next_connection returned, call by call
    wf,                 \* one run of the video workflow
    \* ---- the serverless backend: DynamoDB tables, the SQS queue, invocations
    user_credits,       \* the user's "credits" attribute in USERS_TABLE
    credits_table,      \* transaction ids of the items in CREDITS_TABLE
    videos_table,       \* the items in VIDEOS_TABLE
    video_queue,        \* the messages sent to the video queue
    lam,                \* lam[i]: position and locals of Lambda invocation i
    proc,               \* process_video: position, locals and the record's progress
    \* ---- TorTranscriptFetcher objects, one per worker
    worker_id,          \* worker_id each worker thread passes to the manager
    nfetchers,          \* fetchers the worker has got from the manager so far
    tor_port,           \* self.tor_port (0: the worker has no fetcher yet)
    tor_control_port,   \* self.tor_control_port
    control_port_available,
    coordination_lock,
    \* ---- call frames
    pc,
    caller,             \* entry point the worker used
    max_retries,
    is_available,       \* outcome of the availability check
    loop_i,             \* position of range(max_retries)
    attempt,            \* the local variable "attempt" of fetch_transcript
    probed_ip,          \* the local "exit_ip" of its handlers, once probed
    rotation_success,
    failed_ips,         \* local of _do_rotation
    rot_attempt,        \* "attempt" of _do_rotation (connection attempts)
    rotation_attempts,
    newnym_sent,        \* NEWNYM signals sent so far by the rotation call
    rotEnd,             \* how the last rotate_tor_circuit call ended
    rotSeen,            \* the failed set it read and the address it probed last
    fetchResult,        \* value fetch_transcript returned
    result,             \* value handed to the consumer
    raised,             \* an exception reached the consumer
    stats,              \* TorTranscriptProvider.stats
    \* ---- history
    nrec,               \* tracker records written by this worker's fetch
    lastRec,            \* the last of them
    primaryOk,          \* a primary attempt succeeded
    secondaryCalls,     \* calls of ytdlp_fallback.fetch_transcript
    ytdlp_result,       \* what the last of them returned
    usedIp,             \* exit address the last primary attempt went through
    prelude,            \* what fetch_transcript did before the coming attempt
    saved,              \* save() was called since this fetch's last record
    calls               \* calls made by this fetch: api.fetch, rotate_tor_circuit

envVars ==
    <<circuit, lastNewnym, signallers, newnymRace, lockHolder>>
trackerVars ==
    <<tracker, persisted, clock, save_escalates, at_save>>
mgrVars ==
    <<openPorts, mgrArgs, instances, constructed, mgr_out>>
poolVars ==
    <<ip_queue, pulled_ips>>
wfVars ==
    <<wf>>
cloudVars ==
    <<user_credits, credits_table, videos_table, video_queue, lam, proc>>
fetcherVars ==
    <<worker_id, nfetchers, tor_port, tor_control_port,
      control_port_available, coordination_lock>>
rotLocals ==
    <<failed_ips, rot_attempt, rotation_attempts, newnym_sent>>
rotVars ==
    <<rotation_success, failed_ips, rot_attempt, rotation_attempts, newnym_sent, rotEnd,
      rotSeen>>
loopVars ==
    <<max_retries, is_available, loop_i, attempt, probed_ip>>
outVars ==
    <<fetchResult, result, raised, stats>>
histVars ==
    <<nrec, lastRec, primaryOk, secondaryCalls, ytdlp_result, usedIp, prelude, saved,
      calls>>
vars ==
    <<circuit, lastNewnym, signallers, newnymRace, lockHolder, tracker, persisted, clock,
      save_escalates, at_save,
      openPorts, mgrArgs, instances, constructed, mgr_out, ip_queue, pulled_ips, wf,
      user_credits, credits_table, videos_table, video_queue, lam, proc,
      worker_id, nfetchers,
      tor_port, tor_control_port,
      control_port_available, coordination_lock, pc, caller, max_retries, is_available, loop_i, attempt,
      probed_ip, rotation_success, failed_ips, rot_attempt, rotation_attempts, newnym_sent, rotEnd, rotSeen,
      fetchResult, result, raised, stats, nrec, lastRec, primaryOk,
      secondaryCalls, ytdlp_result, usedIp, prelude, saved, calls>>

\* ------------------------------------------------------ daily exit tracker
\* last_used of an identity that was never used.
Never ==
    0 - 1
EmptyEntry ==
    [last_used |-> Never, use_count |-> 0, success_count |-> 0, fail_count |-> 0]
EmptyTracker ==
    [ip \in Identities |-> EmptyEntry]

\* _record_attempt calls made so far by workers 0..n.
RECURSIVE TotalRecorded(_)
TotalRecorded(n) ==
    IF n < 0 THEN 0 ELSE nrec[n] + TotalRecorded(n - 1)

\* datetime.now() as read by record_attempt; tick 0 is the time before the
\* process started.
Now ==
    clock

\* Mutant: an attempt is counted as a success or a failure but not as a use.
RecordAttempt_NoUseCount(tr, ip, success, now) ==
    [tr EXCEPT ![ip] =
        [last_used     |-> now,
         use_count     |-> @.use_count,
         success_count |-> @.success_count + (IF success THEN 1 ELSE 0),
         fail_count    |-> @.fail_count + (IF success THEN 0 ELSE 1)]]

\* DailyExitTracker.record_attempt(exit_ip, video_id, attempt, success)
RecordAttempt(tr, ip, success, now) ==
    [tr EXCEPT ![ip] =
        [last_used     |-> now,
         use_count     |-> @.use_count + 1,
         success_count |-> @.success_count + (IF success THEN 1 ELSE 0),
         fail_count    |-> @.fail_count + (IF success THEN 0 ELSE 1)]]

\* DailyExitTracker.get_failed_ips_today()
FailedIpsToday(tr) ==
    {ip \in Identities : tr[ip].fail_count > 0}

\* Clock ticks in a calendar day.
TicksPerDay ==
    2

\* A timestamp as written to the JSON document: ISO-8601 text, the calendar
\* date, the letter T and the time of day.
IsoFormat(t) ==
    <<t \div TicksPerDay, "T", t % TicksPerDay>>

\* Mutant: only the time of day is read back.
ParseIso_TimeOnly(str) ==
    str[3]

\* The timestamp read back from its ISO-8601 text.
ParseIso(str) ==
    str[1] * TicksPerDay + str[3]

\* DailyExitTracker.save(): the JSON document, a mapping from each identity
\* that has a record to its timestamp and counters.
Save(tr) ==
    [ip \in {i \in Identities : tr[i].use_count > 0} |->
        [last_used     |-> IsoFormat(tr[ip].last_used),
         use_count     |-> tr[ip].use_count,
         success_count |-> tr[ip].success_count,
         fail_count    |-> tr[ip].fail_count]]

\* DailyExitTracker.__init__: the in-memory map read from the document; an
\* identity the document does not mention has no record.
Load(doc) ==
    [ip \in Identities |->
        IF ip \in DOMAIN doc
        THEN [last_used     |-> ParseIso(doc[ip].last_used),
              use_count     |-> doc[ip].use_count,
              success_count |-> doc[ip].success_count,
              fail_count    |-> doc[ip].fail_count]
        ELSE EmptyEntry]

\* ------------------------------------------------- rotate_tor_circuit
\* The rotation read no failed set or probed no address.
NothingSeen ==
    [ip |-> Unknown, failed |-> {}]

\* Leaving rotate_tor_circuit: the "with coordination_lock" block releases the
\* lock, the locals of _do_rotation are gone, and the caller receives the
\* boolean.
RotReturn(w, ok, how) ==
    /\ rotation_success' =
          IF caller[w] = "rotate" THEN rotation_success
          ELSE [rotation_success EXCEPT ![w] = ok]
    /\ rotEnd' =
          IF caller[w] = "rotate" THEN rotEnd ELSE [rotEnd EXCEPT ![w] = how]
    /\ rotSeen' =
          IF caller[w] = "rotate" THEN rotSeen
          ELSE [rotSeen EXCEPT ![w] =
                   IF how \in {"confirmed", "exhausted"}
                   THEN [ip |-> circuit[tor_port[w]], failed |-> failed_ips[w]]
                   ELSE NothingSeen]
    /\ failed_ips' = [failed_ips EXCEPT ![w] = {}]
    /\ rot_attempt' = [rot_attempt EXCEPT ![w] = 0]
    /\ rotation_attempts' = [rotation_attempts EXCEPT ![w] = 0]
    /\ newnym_sent' = [newnym_sent EXCEPT ![w] = 0]
    /\ lockHolder' =
          IF coordination_lock[w] # None /\ lockHolder[coordination_lock[w]] = w
          THEN [lockHolder EXCEPT ![coordination_lock[w]] = NoWorker]
          ELSE lockHolder
    /\ pc' = [pc EXCEPT ![w] = IF caller[w] = "rotate" THEN "idle" ELSE "post_rot"]

\* fetch_transcript has taken one more step towards the coming attempt.
Precede(w, step, seconds) ==
    /\ prelude' = [prelude EXCEPT ![w] = Append(@, [step |-> step, seconds |-> seconds])]
    /\ calls' = IF step = "rotate" THEN [calls EXCEPT ![w].rotate = @ + 1] ELSE calls
    /\ UNCHANGED <<nrec, lastRec, primaryOk, secondaryCalls, ytdlp_result, usedIp,
                   saved>>

\* Mutant: the availability flag is not consulted.
RotationDisabled_Ignored(w) ==
    FALSE

\* "if not self._control_port_available"
RotationDisabled(w) ==
    ~control_port_available[w]

\* The head of rotate_tor_circuit: "return False" when rotation is disabled.
RotEntry(w) ==
    /\ pc[w] = "rot_entry"
    /\ IF RotationDisabled(w)
       THEN RotReturn(w, FALSE, "skipped")
       ELSE /\ pc' = [pc EXCEPT ![w] = "rot_lock"]
            /\ UNCHANGED <<rotVars, lockHolder>>
    /\ IF caller[w] = "rotate" THEN UNCHANGED histVars ELSE Precede(w, "rotate", 0)
    /\ UNCHANGED <<circuit, lastNewnym, signallers, newnymRace, trackerVars,
                   mgrVars, poolVars, wfVars, cloudVars,
                   fetcherVars, caller, loopVars, outVars>>

\* "with coordination_lock:" (when there is one), then the head of
\* _do_rotation: the failed set is read once, before the connection loop.
RotAcquire(w) ==
    /\ pc[w] = "rot_lock"
    /\ IF coordination_lock[w] = None
       THEN UNCHANGED lockHolder
       ELSE /\ lockHolder[coordination_lock[w]] = NoWorker
            /\ lockHolder' = [lockHolder EXCEPT ![coordination_lock[w]] = w]
    /\ failed_ips' = [failed_ips EXCEPT ![w] = FailedIpsToday(tracker)]
    /\ rot_attempt' = [rot_attempt EXCEPT ![w] = 0]
    /\ pc' = [pc EXCEPT ![w] = "rot_connect"]
    /\ UNCHANGED <<circuit, lastNewnym, signallers, newnymRace, trackerVars,
                   mgrVars, poolVars, wfVars, cloudVars,
                   fetcherVars, caller, loopVars, rotation_success,
                   rotation_attempts, newnym_sent, rotEnd, rotSeen, outVars, histVars>>

\* Mutant: a connection error is retried once more.
CanRetryConnection_OneMore(a) ==
    a < RotMaxRetries

\* Mutant: a connection error is never retried.
CanRetryConnection_Never(a) ==
    FALSE

\* "if attempt < max_retries - 1" in the connection-error handler
CanRetryConnection(a) ==
    a < RotMaxRetries - 1

\* "except (ConnectionRefusedError, OSError, SocketError)": retry the
\* connection, or give up for good after the last attempt.
ConnectionError(w) ==
    IF CanRetryConnection(rot_attempt[w])
    THEN /\ rot_attempt' = [rot_attempt EXCEPT ![w] = @ + 1]
         /\ rotation_attempts' = [rotation_attempts EXCEPT ![w] = 0]
         /\ pc' = [pc EXCEPT ![w] = "rot_connect"]
         /\ UNCHANGED <<control_port_available, rotation_success, rotEnd, rotSeen,
                        failed_ips, newnym_sent, lockHolder>>
    ELSE /\ control_port_available' = [control_port_available EXCEPT ![w] = FALSE]
         /\ RotReturn(w, FALSE, "unreachable")

\* "except Exception": authentication or protocol errors are not retried.
OtherError(w) ==
    /\ control_port_available' = [control_port_available EXCEPT ![w] = FALSE]
    /\ RotReturn(w, FALSE, "error")

\* Controller.from_port(...) and controller.authenticate(...)
RotConnect(w) ==
    /\ pc[w] = "rot_connect"
    /\ \E outcome \in {"ok", "connection_error", "other_error"} :
          CASE outcome = "ok" ->
                  /\ rotation_attempts' = [rotation_attempts EXCEPT ![w] = 0]
                  /\ pc' = [pc EXCEPT ![w] = "rot_signal"]
                  /\ UNCHANGED <<control_port_available, rotation_success, rotEnd, rotSeen,
                                 failed_ips, rot_attempt, newnym_sent, lockHolder>>
            [] outcome = "connection_error" -> ConnectionError(w)
            [] outcome = "other_error" -> OtherError(w)
    /\ UNCHANGED <<circuit, lastNewnym, signallers, newnymRace, trackerVars,
                   mgrVars, poolVars, wfVars, cloudVars,
                   worker_id, nfetchers, tor_port,
                   tor_control_port, coordination_lock,
                   caller, loopVars, outVars, histVars>>

\* controller.signal(Signal.NEWNYM); the session is closed and recreated.
\* The daemon builds a new circuit, whose exit address it chooses.
RotSignal(w) ==
    /\ pc[w] = "rot_signal"
    /\ \E outcome \in {"ok", "connection_error", "other_error"} :
          CASE outcome = "ok" ->
                  /\ \E ip \in IPs :
                        circuit' = [circuit EXCEPT ![tor_port[w]] = ip]
                  /\ newnymRace' =
                        (newnymRace \/ lastNewnym[tor_port[w]] = "unsettled")
                  /\ lastNewnym' = [lastNewnym EXCEPT ![tor_port[w]] = "unsettled"]
                  /\ signallers' = [signallers EXCEPT ![tor_port[w]] = @ \cup {w}]
                  /\ newnym_sent' = [newnym_sent EXCEPT ![w] = @ + 1]
                  /\ pc' = [pc EXCEPT ![w] = "rot_wait"]
                  /\ UNCHANGED <<control_port_available, rotation_success, failed_ips,
                                 rot_attempt, rotation_attempts, rotEnd, rotSeen, lockHolder>>
            [] outcome = "connection_error" ->
                  ConnectionError(w)
                  /\ UNCHANGED <<circuit, lastNewnym, signallers, newnymRace>>
            [] outcome = "other_error" ->
                  OtherError(w)
                  /\ UNCHANGED <<circuit, lastNewnym, signallers, newnymRace>>
    /\ UNCHANGED <<trackerVars, mgrVars, poolVars, wfVars, cloudVars, worker_id, nfetchers, tor_port,
                   tor_control_port,
                   coordination_lock, caller, loopVars, outVars, histVars>>

\* Mutant: the sleep lasts what the daemon reports, without the floor.
WaitTime_NoFloor(newnym_wait) ==
    newnym_wait

\* wait_time = max(controller.get_newnym_wait(), 3.0)
WaitTime(newnym_wait) ==
    Max2(newnym_wait, SettleFloor)

\* time.sleep(wait_time): the circuit has settled once the sleep lasted at
\* least the daemon's minimum and at least the floor.
RotWait(w) ==
    /\ pc[w] = "rot_wait"
    /\ \E newnym_wait \in 0..MaxNewnymWait :
          lastNewnym' = [lastNewnym EXCEPT ![tor_port[w]] =
              IF WaitTime(newnym_wait) >= newnym_wait /\ WaitTime(newnym_wait) >= SettleFloor
              THEN "settled" ELSE @]
    /\ pc' = [pc EXCEPT ![w] = "rot_probe"]
    /\ UNCHANGED <<circuit, signallers, newnymRace, lockHolder, trackerVars,
                   mgrVars, poolVars, wfVars, cloudVars, fetcherVars, caller, loopVars, rotVars, outVars,
                   histVars>>

\* Mutant: the new exit address is never compared with the failed set.
InFailedIps_Unchecked(ip, failed) ==
    FALSE

\* Mutant: every new exit address is taken for a failed one.
InFailedIps_Always(ip, failed) ==
    TRUE

\* "if new_exit_ip in failed_ips"
InFailedIps(ip, failed) ==
    ip \in failed

\* Mutant: the signalling loop runs once more.
MoreRotationAttempts_OneMore(n) ==
    n <= MaxRotationAttempts

\* "while rotation_attempts < max_rotation_attempts"
MoreRotationAttempts(n) ==
    n < MaxRotationAttempts

\* Mutant: a rotation whose new address cannot be probed counts as failed.
UnverifiedRotation_Failed ==
    FALSE

\* "except Exception as ip_check_error: ... return True"
UnverifiedRotation ==
    TRUE

\* The probe of the new exit address through the fresh session, and the
\* decision taken on it.
RotProbe(w) ==
    /\ pc[w] = "rot_probe"
    /\ \E probe_ok \in BOOLEAN :
          IF ~probe_ok
          THEN RotReturn(w, UnverifiedRotation, "unverified")
          ELSE IF InFailedIps(circuit[tor_port[w]], failed_ips[w])
               THEN IF MoreRotationAttempts(rotation_attempts[w] + 1)
                    THEN /\ rotation_attempts' = [rotation_attempts EXCEPT ![w] = @ + 1]
                         /\ pc' = [pc EXCEPT ![w] = "rot_signal"]
                         /\ UNCHANGED <<rotation_success, rotEnd, rotSeen, failed_ips,
                                        rot_attempt, newnym_sent, lockHolder>>
                    ELSE RotReturn(w, FALSE, "exhausted")
               ELSE RotReturn(w, TRUE, "confirmed")
    /\ UNCHANGED <<circuit, lastNewnym, signallers, newnymRace, trackerVars,
                   mgrVars, poolVars, wfVars, cloudVars,
                   fetcherVars, caller, loopVars, outVars, histVars>>

\* ----------------------------------------------------- fetch_transcript
\* No handler of the worker is between its probe and its record.
NotProbed ==
    [exit_ip |-> NoIp, by |-> "none"]

NoRecord ==
    [attempt |-> 0, exit_ip |-> Unknown, success |-> FALSE, via |-> Unknown,
     probed |-> "none"]

\* A consumer enters the engine: fetch_with_fallback directly, through
\* TorTranscriptProvider.get_transcript (which counts the call), or
\* fetch_transcript alone with its own max_retries.  fetch_with_fallback
\* calls fetch_transcript with the default max_retries.
StartFetchAs(w, c, n) ==
    /\ pc[w] = "idle"
    /\ tor_port[w] # 0
    /\ caller' = [caller EXCEPT ![w] = c]
    /\ max_retries' = [max_retries EXCEPT ![w] =
                          IF c = "fetch" THEN n ELSE DefaultMaxRetries]
    /\ stats' = [stats EXCEPT ![w].total_attempts =
                          IF c = "provider" THEN @ + 1 ELSE @]
    /\ pc' = [pc EXCEPT ![w] = "check"]
    /\ UNCHANGED <<envVars, trackerVars, mgrVars, poolVars, wfVars, cloudVars, fetcherVars, is_available,
                   loop_i, attempt, probed_ip, rotVars, fetchResult, result, raised,
                   histVars>>

StartFetch(w) ==
    \E c \in {"fallback", "provider", "fetch"}, n \in 1..MaxRetriesArg :
        StartFetchAs(w, c, n)

\* check_transcript_availability: unavailable makes fetch_transcript return
\* None at once; an error inside the check counts as available.
CheckAvailability(w) ==
    /\ pc[w] = "check"
    /\ \E available \in BOOLEAN :
          IF available
          THEN /\ is_available' = [is_available EXCEPT ![w] = "yes"]
               /\ loop_i' = [loop_i EXCEPT ![w] = 0]
               /\ pc' = [pc EXCEPT ![w] = "loop"]
               /\ UNCHANGED fetchResult
          ELSE /\ is_available' = [is_available EXCEPT ![w] = "no"]
               /\ fetchResult' = [fetchResult EXCEPT ![w] = "none"]
               /\ pc' = [pc EXCEPT ![w] = "fetch_ret"]
               /\ UNCHANGED loop_i
    /\ UNCHANGED <<envVars, trackerVars, mgrVars, poolVars, wfVars, cloudVars, fetcherVars, caller,
                   max_retries, attempt, probed_ip, rotVars, result, raised, stats,
                   histVars>>

\* Mutant: the loop runs once more than max_retries.
MoreAttempts_OffByOne(i, n) ==
    i <= n

\* range(max_retries) has another value
MoreAttempts(i, n) ==
    i < n

\* Mutant: the exhausted loop returns None without saving the tracker.
OnExhaustion_Unsaved ==
    "fetch_ret"

\* Where control goes when the range is exhausted: the final error message,
\* then "self.daily_tracker.save()".
OnExhaustion ==
    "final_save"

\* "for attempt in range(max_retries)": the next value of the range is bound
\* to attempt; retries rotate first, the first attempt does not.
LoopHead(w) ==
    /\ pc[w] = "loop"
    /\ IF MoreAttempts(loop_i[w], max_retries[w])
       THEN /\ attempt' = [attempt EXCEPT ![w] = loop_i[w]]
            /\ pc' = [pc EXCEPT ![w] = IF loop_i[w] > 0 THEN "rot_entry" ELSE "fetch"]
       ELSE /\ pc' = [pc EXCEPT ![w] = OnExhaustion]
            /\ UNCHANGED attempt
    /\ lastRec' = [lastRec EXCEPT ![w] = NoRecord]
    /\ UNCHANGED <<envVars, trackerVars, mgrVars, poolVars, wfVars, cloudVars, fetcherVars, caller,
                   max_retries, is_available, loop_i, probed_ip, rotVars, outVars, nrec,
                   primaryOk, secondaryCalls, ytdlp_result, usedIp, prelude, saved, calls>>

\* Mutant: the penalty is slept after every rotation.
NeedsPenalty_Always(rotated) ==
    TRUE

\* "if not rotation_success:"
NeedsPenalty(rotated) ==
    ~rotated

\* "extra_delay = 10 * attempt"
ExtraDelay(a) ==
    10 * a

\* "backoff = (2 ** attempt) + random.uniform(0, 1)", without the jitter
BackoffBase(a) ==
    2 ^ a

\* After rotate_tor_circuit returned: the penalty sleep only when the
\* rotation failed.
PostRotation(w) ==
    /\ pc[w] = "post_rot"
    /\ pc' = [pc EXCEPT ![w] =
                 IF NeedsPenalty(rotation_success[w]) THEN "penalty" ELSE "backoff"]
    /\ UNCHANGED <<envVars, trackerVars, mgrVars, poolVars, wfVars, cloudVars,
                   fetcherVars, caller, loopVars, rotVars, outVars, histVars>>

\* time.sleep(extra_delay)
Penalty(w) ==
    /\ pc[w] = "penalty"
    /\ pc' = [pc EXCEPT ![w] = "backoff"]
    /\ Precede(w, "penalty", ExtraDelay(attempt[w]))
    /\ UNCHANGED <<envVars, trackerVars, mgrVars, poolVars, wfVars, cloudVars,
                   fetcherVars, caller, loopVars, rotVars, outVars>>

\* time.sleep(backoff)
Backoff(w) ==
    /\ pc[w] = "backoff"
    /\ pc' = [pc EXCEPT ![w] = "fetch"]
    /\ Precede(w, "backoff", BackoffBase(attempt[w]))
    /\ UNCHANGED <<envVars, trackerVars, mgrVars, poolVars, wfVars, cloudVars,
                   fetcherVars, caller, loopVars, rotVars, outVars>>

\* Mutant: a failed api.fetch goes to the outer handler unrecorded.
AfterFetch_Unrecorded(fetched) ==
    IF fetched THEN "probe_success" ELSE "attempt_failed"

\* Where control goes after api.fetch: on to the success path, or into the
\* inner "except Exception as fetch_error" handler; both probe the exit
\* address and then record.
AfterFetch(fetched) ==
    IF fetched THEN "probe_success" ELSE "probe_failure"

\* api.fetch(video_id, languages) through the instance's current circuit.
\* The failure handler starts with "attempt = attempt + 1".
Fetch(w) ==
    /\ pc[w] = "fetch"
    /\ usedIp' = [usedIp EXCEPT ![w] = circuit[tor_port[w]]]
    /\ calls' = [calls EXCEPT ![w].fetch = @ + 1]
    /\ \E fetched \in BOOLEAN :
          /\ attempt' = [attempt EXCEPT ![w] = IF fetched THEN @ ELSE @ + 1]
          /\ pc' = [pc EXCEPT ![w] = AfterFetch(fetched)]
    /\ UNCHANGED <<envVars, trackerVars, mgrVars, poolVars, wfVars, cloudVars, fetcherVars, caller,
                   max_retries, is_available, loop_i, probed_ip, rotVars, outVars, nrec,
                   lastRec, primaryOk, secondaryCalls, ytdlp_result, prelude, saved>>

\* Mutant: without an exit_ip the address the circuit is believed to have
\* is recorded, probed or not.
ExitIpToRecord_Assumed(w, exit_ip, probe_ok) ==
    IF exit_ip = NoIp THEN circuit[tor_port[w]] ELSE exit_ip

\* TorTranscriptFetcher._record_attempt(video_id, attempt, success, exit_ip):
\* without an exit_ip the address is probed, "unknown" if the probe fails;
\* then the daily tracker records the attempt.
ExitIpToRecord(w, exit_ip, probe_ok) ==
    IF exit_ip = NoIp
    THEN (IF probe_ok THEN circuit[tor_port[w]] ELSE Unknown)
    ELSE exit_ip

\* The handlers of fetch_transcript probe the exit address themselves and
\* pass it on; if their probe fails they pass exit_ip=None.
HandlerExitIp(w, probe_ok) ==
    IF probe_ok THEN circuit[tor_port[w]] ELSE NoIp

\* Which of the two api.ipify.org probes answered: the handler's own, or
\* the one _record_attempt makes when it is given no exit_ip.
ProbedBy(probe_ok, second_probe_ok) ==
    IF probe_ok THEN "handler"
    ELSE IF second_probe_ok THEN "_record_attempt" ELSE "nobody"

\* "attempt + 1", the number an attempt is recorded with; "via" notes the
\* address the attempt itself went through, "probed" which probe answered.
RecordedAs(w, ip, success, probed) ==
    [attempt |-> attempt[w] + 1, exit_ip |-> ip, success |-> success,
     via |-> usedIp[w], probed |-> probed]

\* The attempt is over: the rotation outcome and the address it used belong
\* to the iteration that ends here.
EndAttempt(w) ==
    /\ rotation_success' = [rotation_success EXCEPT ![w] = FALSE]
    /\ rotEnd' = [rotEnd EXCEPT ![w] = "none"]
    /\ rotSeen' = [rotSeen EXCEPT ![w] = NothingSeen]
    /\ usedIp' = [usedIp EXCEPT ![w] = Unknown]
    /\ prelude' = [prelude EXCEPT ![w] = <<>>]
    /\ saved' = [saved EXCEPT ![w] = FALSE]
    /\ UNCHANGED <<rotLocals, calls>>

\* The exit address a handler has for its record: the handler's own probe
\* through api.ipify.org or, when that fails, the probe _record_attempt
\* makes for exit_ip=None; "unknown" when neither answers.  The address is
\* the one the circuit has when the probe is made.
ProbeExitIp(w) ==
    /\ pc[w] \in {"probe_failure", "probe_success"}
    /\ \E probe_ok \in BOOLEAN, second_probe_ok \in BOOLEAN :
          probed_ip' = [probed_ip EXCEPT ![w] =
              [exit_ip |-> ExitIpToRecord(w, HandlerExitIp(w, probe_ok), second_probe_ok),
               by      |-> ProbedBy(probe_ok, second_probe_ok)]]
    /\ pc' = [pc EXCEPT ![w] =
                 IF pc[w] = "probe_failure" THEN "record_failure" ELSE "record_success"]
    /\ UNCHANGED <<envVars, trackerVars, mgrVars, poolVars, wfVars, cloudVars, fetcherVars,
                   caller, max_retries, is_available, loop_i, attempt, rotVars, outVars,
                   histVars>>

\* The failure handler records the attempt, under the address probed
\* before, and re-raises.
RecordFailure(w) ==
    /\ pc[w] = "record_failure"
    /\ tracker' = RecordAttempt(tracker, probed_ip[w].exit_ip, FALSE, Now)
    /\ lastRec' = [lastRec EXCEPT ![w] =
                      RecordedAs(w, probed_ip[w].exit_ip, FALSE, probed_ip[w].by)]
    /\ probed_ip' = [probed_ip EXCEPT ![w] = NotProbed]
    /\ nrec' = [nrec EXCEPT ![w] = @ + 1]
    /\ pc' = [pc EXCEPT ![w] = "attempt_failed"]
    /\ EndAttempt(w)
    /\ UNCHANGED <<envVars, persisted, clock, save_escalates, at_save, mgrVars, poolVars, wfVars, cloudVars, fetcherVars, caller,
                   max_retries, is_available, loop_i, attempt, outVars, primaryOk,
                   secondaryCalls, ytdlp_result>>

\* The outer handlers of the loop body ("except (Timeout, socket.timeout)",
\* "except Exception") absorb the error, and the for loop goes on to the
\* next value of its range.
AttemptFailed(w) ==
    /\ pc[w] = "attempt_failed"
    /\ loop_i' = [loop_i EXCEPT ![w] = @ + 1]
    /\ pc' = [pc EXCEPT ![w] = "loop"]
    /\ UNCHANGED <<envVars, trackerVars, mgrVars, poolVars, wfVars, cloudVars, fetcherVars, caller,
                   max_retries, is_available, attempt, probed_ip, rotVars, outVars,
                   histVars>>

\* The success path records the attempt the same way.
RecordSuccess(w) ==
    /\ pc[w] = "record_success"
    /\ tracker' = RecordAttempt(tracker, probed_ip[w].exit_ip, TRUE, Now)
    /\ lastRec' = [lastRec EXCEPT ![w] =
                      RecordedAs(w, probed_ip[w].exit_ip, TRUE, probed_ip[w].by)]
    /\ probed_ip' = [probed_ip EXCEPT ![w] = NotProbed]
    /\ nrec' = [nrec EXCEPT ![w] = @ + 1]
    /\ primaryOk' = [primaryOk EXCEPT ![w] = TRUE]
    /\ pc' = [pc EXCEPT ![w] = "save_success"]
    /\ EndAttempt(w)
    /\ UNCHANGED <<envVars, persisted, clock, save_escalates, at_save, mgrVars, poolVars, wfVars, cloudVars, fetcherVars, caller,
                   max_retries, is_available, loop_i, attempt, outVars, secondaryCalls,
                   ytdlp_result>>

\* What a call of DailyExitTracker.save() can come to: the document is
\* written, or the write fails; the failure is logged inside save() or
\* raised out of it, as the installed tracker does.
SaveOutcomes ==
    {"written", IF save_escalates THEN "raised" ELSE "logged"}

\* Whether the call of save() raises into fetch_transcript.
SaveRaises(outcome) ==
    outcome = "raised"

\* The document after save(): written, or left as it was.
Persist(outcome) ==
    IF outcome = "written" THEN Save(tracker) ELSE persisted

\* The in-memory map the document on disk was written from.
LastWritten(outcome) ==
    IF outcome = "written" THEN tracker ELSE at_save

\* "self.daily_tracker.save()" then "return {..., 'method': 'tor'}".  The
\* save is inside the loop body's try: an exception from it is absorbed by
\* "except Exception" and the for loop goes on to its next value.
SaveAfterSuccess(w) ==
    /\ pc[w] = "save_success"
    /\ \E outcome \in SaveOutcomes :
          /\ persisted' = Persist(outcome)
          /\ at_save' = LastWritten(outcome)
          /\ IF SaveRaises(outcome)
             THEN /\ pc' = [pc EXCEPT ![w] = "attempt_failed"]
                  /\ UNCHANGED fetchResult
             ELSE /\ fetchResult' = [fetchResult EXCEPT ![w] = "tor"]
                  /\ pc' = [pc EXCEPT ![w] = "fetch_ret"]
    /\ lastRec' = [lastRec EXCEPT ![w] = NoRecord]
    /\ saved' = [saved EXCEPT ![w] = TRUE]
    /\ UNCHANGED <<envVars, tracker, clock, save_escalates, mgrVars, poolVars, wfVars, cloudVars,
                   fetcherVars, caller, loopVars, rotVars, result, raised, stats,
                   nrec, primaryOk, secondaryCalls, ytdlp_result, usedIp, prelude,
                   calls>>

\* After the loop: "self.daily_tracker.save()" then "return None".  This
\* save is outside every try: an exception from it leaves fetch_transcript
\* and fetch_with_fallback; get_transcript re-raises it as "Could not get
\* transcript".
SaveAfterExhaustion(w) ==
    /\ pc[w] = "final_save"
    /\ \E outcome \in SaveOutcomes :
          /\ persisted' = Persist(outcome)
          /\ at_save' = LastWritten(outcome)
          /\ IF SaveRaises(outcome)
             THEN /\ raised' = [raised EXCEPT ![w] = TRUE]
                  /\ pc' = [pc EXCEPT ![w] = "done"]
                  /\ UNCHANGED fetchResult
             ELSE /\ fetchResult' = [fetchResult EXCEPT ![w] = "none"]
                  /\ pc' = [pc EXCEPT ![w] = "fetch_ret"]
                  /\ UNCHANGED raised
    /\ saved' = [saved EXCEPT ![w] = TRUE]
    /\ UNCHANGED <<envVars, tracker, clock, save_escalates, mgrVars, poolVars, wfVars, cloudVars,
                   fetcherVars, caller, loopVars, rotVars, result, stats, nrec,
                   lastRec, primaryOk, secondaryCalls, ytdlp_result, usedIp, prelude,
                   calls>>

\* -------------------------------------------------- fetch_with_fallback
\* "if result:" in fetch_with_fallback
PrimarySucceeded(fetch_result) ==
    fetch_result # "none"

\* fetch_transcript returned.  A direct caller gets its value; in
\* fetch_with_fallback a result is returned as it is, and None leads to the
\* yt-dlp fallback.
FetchReturn(w) ==
    /\ pc[w] = "fetch_ret"
    /\ IF caller[w] = "fetch"
       THEN /\ result' = [result EXCEPT ![w] = fetchResult[w]]
            /\ pc' = [pc EXCEPT ![w] = "done"]
       ELSE IF PrimarySucceeded(fetchResult[w])
            THEN /\ result' = [result EXCEPT ![w] = fetchResult[w]]
                 /\ pc' = [pc EXCEPT ![w] =
                              IF caller[w] = "provider" THEN "provider_ret" ELSE "done"]
            ELSE /\ pc' = [pc EXCEPT ![w] = "fallback"]
                 /\ UNCHANGED result
    /\ UNCHANGED <<envVars, trackerVars, mgrVars, poolVars, wfVars, cloudVars, fetcherVars, caller, loopVars,
                   rotVars, fetchResult, raised, stats, histVars>>

\* Mutant: the fallback result keeps the primary method's tag.
FallbackMethod_Tor ==
    "tor"

\* "ytdlp_result['method'] = 'yt-dlp'"
FallbackMethod ==
    "yt-dlp"

\* self.ytdlp_fallback.fetch_transcript(video_id, languages): a result is
\* tagged and returned, no result is returned as None.
Fallback(w) ==
    /\ pc[w] = "fallback"
    /\ secondaryCalls' = [secondaryCalls EXCEPT ![w] = @ + 1]
    /\ \E ytdlp_ok \in BOOLEAN :
          /\ ytdlp_result' = [ytdlp_result EXCEPT ![w] =
                                 IF ytdlp_ok THEN "transcript" ELSE "none"]
          /\ result' = [result EXCEPT ![w] = IF ytdlp_ok THEN FallbackMethod ELSE "none"]
    /\ pc' = [pc EXCEPT ![w] = IF caller[w] = "provider" THEN "provider_ret" ELSE "done"]
    /\ UNCHANGED <<envVars, trackerVars, mgrVars, poolVars, wfVars, cloudVars, fetcherVars, caller, loopVars,
                   rotVars, fetchResult, raised, stats, nrec, lastRec, primaryOk,
                   usedIp, prelude, saved, calls>>

\* ------------------------------- TorTranscriptProvider.get_transcript
\* Mutant: get_transcript returns whatever it got, None included.
ProviderGotResult_Always(res) ==
    TRUE

\* "if result:" in get_transcript
ProviderGotResult(res) ==
    res # "none"

\* A result is counted and returned.  No result raises "Both Tor and yt-dlp
\* fallback failed", which the handler, finding no rate-limit text in it,
\* re-raises as "Could not get transcript".
ProviderReturn(w) ==
    /\ pc[w] = "provider_ret"
    /\ IF ProviderGotResult(result[w])
       THEN /\ stats' = [stats EXCEPT ![w] =
                  IF result[w] = "yt-dlp"
                  THEN [@ EXCEPT !.ytdlp_success = @ + 1]
                  ELSE [@ EXCEPT !.tor_success = @ + 1]]
            /\ UNCHANGED raised
       ELSE /\ stats' = [stats EXCEPT ![w] =
                  [@ EXCEPT !.tor_failure = @ + 1, !.ytdlp_failure = @ + 1]]
            /\ raised' = [raised EXCEPT ![w] = TRUE]
    /\ pc' = [pc EXCEPT ![w] = "done"]
    /\ UNCHANGED <<envVars, trackerVars, mgrVars, poolVars, wfVars, cloudVars, fetcherVars, caller, loopVars,
                   rotVars, fetchResult, result, histVars>>

\* ------------------------------------------------- TorExitNodeManager
\* TorInstance(instance_id, socks_port, control_port, host='127.0.0.1')
TorInstance(instance_id, socks_port, control_port) ==
    [instance_id |-> instance_id, socks_port |-> socks_port,
     control_port |-> control_port, host |-> "127.0.0.1"]

\* _is_port_open: a connection to the port is accepted.
IsPortOpen(open, port) ==
    port \in open

\* socks_port = base_socks_port + (i * port_increment)
SocksPortAt(args, i) ==
    args.base_socks_port + (i * args.port_increment)

\* Mutant: control ports are spaced by one, whatever the increment.
ControlPortAt_Unspaced(args, i) ==
    args.base_control_port + i

\* control_port = base_control_port + (i * port_increment)
ControlPortAt(args, i) ==
    args.base_control_port + (i * args.port_increment)

\* Mutant: a closed port is skipped instead of ending the probing.
RECURSIVE DetectFrom_SkipsGaps(_, _, _, _)
DetectFrom_SkipsGaps(args, open, i, detected) ==
    IF i < args.max_instances
    THEN IF IsPortOpen(open, SocksPortAt(args, i))
         THEN DetectFrom_SkipsGaps(args, open, i + 1,
                  Append(detected, TorInstance(i + 1, SocksPortAt(args, i),
                                               ControlPortAt(args, i))))
         ELSE DetectFrom_SkipsGaps(args, open, i + 1, detected)
    ELSE detected

\* "for i in range(max_instances)": the iterations from i on; an open port
\* appends its instance, a closed one breaks out of the loop.
RECURSIVE DetectFrom(_, _, _, _)
DetectFrom(args, open, i, detected) ==
    IF i < args.max_instances /\ IsPortOpen(open, SocksPortAt(args, i))
    THEN DetectFrom(args, open, i + 1,
             Append(detected, TorInstance(i + 1, SocksPortAt(args, i),
                                          ControlPortAt(args, i))))
    ELSE detected

\* Mutant: an empty detection result is returned as it is.
DetectInstances_NoDefault(args, open) ==
    DetectFrom(args, open, 0, <<>>)

\* _detect_instances: nothing detected yields the default instance.
DetectInstances(args, open) ==
    LET detected == DetectFrom(args, open, 0, <<>>)
    IN  IF detected = <<>>
        THEN <<TorInstance(1, DefaultSocksPort, DefaultControlPort)>>
        ELSE detected

\* TorExitNodeManager.__init__
Detect ==
    /\ ~constructed
    /\ instances' = DetectInstances(mgrArgs, openPorts)
    /\ constructed' = TRUE
    /\ UNCHANGED <<envVars, trackerVars, openPorts, mgrArgs, mgr_out, poolVars, wfVars,
                   cloudVars, fetcherVars, pc,
                   caller, loopVars, rotVars, outVars, histVars>>

\* Ports the manager may probe that a daemon may listen on.
ProbedPorts(args) ==
    {SocksPortAt(args, i) : i \in 0..(NumPorts - 1)}

\* No accessor of the manager was called yet.
NoOutput ==
    [call |-> "none"]

\* Mutant: an accessor probes the ports again before it answers.
Accessor_Reprobes(out) ==
    /\ constructed
    /\ mgr_out' = out
    /\ instances' = DetectInstances(mgrArgs, openPorts)
    /\ UNCHANGED <<envVars, trackerVars, openPorts, mgrArgs, constructed,
                   poolVars, wfVars, cloudVars, fetcherVars, pc, caller, loopVars,
                   rotVars, outVars, histVars>>

\* The manager's accessors return to the caller and assign nothing.
Accessor(out) ==
    /\ constructed
    /\ mgr_out' = out
    /\ UNCHANGED <<envVars, trackerVars, openPorts, mgrArgs, instances, constructed,
                   poolVars, wfVars, cloudVars, fetcherVars, pc, caller, loopVars,
                   rotVars, outVars, histVars>>

\* get_instance_count: len(self.instances)
GetInstanceCount ==
    Accessor([call |-> "get_instance_count", value |-> Len(instances)])

\* is_multi_instance: len(self.instances) > 1
IsMultiInstance ==
    Accessor([call |-> "is_multi_instance", value |-> Len(instances) > 1])

\* get_stats: the count, the multi-instance flag and one dict per instance
\* with its id and ports (the daily figures are read from the tracker).
GetStats ==
    Accessor([call |-> "get_stats",
              tor_instances |-> Len(instances),
              multi_instance |-> Len(instances) > 1,
              instances |-> [i \in DOMAIN instances |->
                                [id |-> instances[i].instance_id,
                                 socks_port |-> instances[i].socks_port,
                                 control_port |-> instances[i].control_port]]])

\* A daemon starts or stops listening on a probed port while the manager
\* is in use.
PortChange ==
    /\ constructed
    /\ \E p \in ProbedPorts(mgrArgs) :
          openPorts' = IF p \in openPorts THEN openPorts \ {p} ELSE openPorts \cup {p}
    /\ UNCHANGED <<envVars, trackerVars, mgrArgs, instances, constructed, mgr_out,
                   poolVars, wfVars, cloudVars, fetcherVars, pc, caller, loopVars,
                   rotVars, outVars, histVars>>

\* Mutant: every worker is given the first instance.
InstanceIdx_First(id, insts) ==
    0

\* instance_idx = worker_id % len(self.instances)
InstanceIdx(id, insts) ==
    id % Len(insts)

\* get_fetcher_for_worker: a new fetcher on the assigned instance's ports.
\* The constructor sets no _coordination_lock and marks rotation available.
GetFetcher(w) ==
    /\ constructed
    /\ instances # <<>>
    /\ pc[w] \in {"off", "idle"}
    /\ nfetchers[w] < MaxFetchers
    /\ nfetchers' = [nfetchers EXCEPT ![w] = @ + 1]
    /\ LET instance == instances[InstanceIdx(worker_id[w], instances) + 1]
       IN  /\ tor_port' = [tor_port EXCEPT ![w] = instance.socks_port]
           /\ tor_control_port' = [tor_control_port EXCEPT ![w] = instance.control_port]
    /\ control_port_available' = [control_port_available EXCEPT ![w] = TRUE]
    /\ coordination_lock' = [coordination_lock EXCEPT ![w] = None]
    /\ pc' = [pc EXCEPT ![w] = "idle"]
    /\ UNCHANGED <<envVars, trackerVars, mgrVars, poolVars, wfVars, cloudVars, worker_id, caller, loopVars,
                   rotVars, outVars, histVars>>

\* A worker calls rotate_tor_circuit() on its fetcher directly.
RotateCall(w) ==
    /\ pc[w] = "idle"
    /\ tor_port[w] # 0
    /\ caller' = [caller EXCEPT ![w] = "rotate"]
    /\ pc' = [pc EXCEPT ![w] = "rot_entry"]
    /\ UNCHANGED <<envVars, trackerVars, mgrVars, poolVars, wfVars, cloudVars, fetcherVars, loopVars, rotVars,
                   outVars, histVars>>

\* A worker calls _record_attempt(video_id, success, exit_ip) on its
\* fetcher directly; a missing exit_ip is probed, a failed probe is "unknown".
RecordAttemptCall(w) ==
    /\ pc[w] = "idle"
    /\ tor_port[w] # 0
    /\ TotalRecorded(NumWorkers - 1) < MaxRecords
    /\ \E success \in BOOLEAN, exit_ip \in Identities \cup {NoIp}, probe_ok \in BOOLEAN :
          tracker' = RecordAttempt(tracker, ExitIpToRecord(w, exit_ip, probe_ok),
                                  success, Now)
    /\ nrec' = [nrec EXCEPT ![w] = @ + 1]
    /\ UNCHANGED <<envVars, persisted, clock, save_escalates, at_save, mgrVars, poolVars, wfVars, cloudVars, fetcherVars, pc, caller, loopVars,
                   rotVars, outVars, lastRec, primaryOk, secondaryCalls,
                   ytdlp_result, usedIp, prelude, saved, calls>>

\* ------------------------------------------------------------ TorIPQueue
\* The queue before start() is called.
NoQueue ==
    [started |-> FALSE, target_size |-> 0, queue |-> <<>>, allocated_ips |-> {},
     allocated |-> 0, failed_attempts |-> 0, allocation_complete |-> FALSE]

NoPool ==
    /\ ip_queue = NoQueue
    /\ pulled_ips = <<>>

\* TorIPQueue(client, target_size).start(blocking=True)
QueueStart ==
    /\ ~ip_queue.started
    /\ \E k \in 1..NumIPs :
          ip_queue' = [ip_queue EXCEPT !.started = TRUE, !.target_size = k]
    /\ UNCHANGED <<envVars, trackerVars, mgrVars, pulled_ips, wfVars, cloudVars, fetcherVars,
                   pc, caller, loopVars, rotVars, outVars, histVars>>

\* Mutant: an identity is pooled whether or not the pool already has it.
IsUniqueForPool_Any(ip, allocated_ips) ==
    TRUE

\* An identity is pooled only if no pooled connection has it yet.
IsUniqueForPool(ip, allocated_ips) ==
    ip \notin allocated_ips

\* One rotation of the pre-allocation: a new unique identity is bound to a
\* connection and queued; any other outcome counts as a failed attempt.  The
\* allocation is complete at target_size, or when the budget is spent.
QueueAllocate ==
    /\ ip_queue.started
    /\ ~ip_queue.allocation_complete
    /\ \E ip \in IPs :
          IF IsUniqueForPool(ip, ip_queue.allocated_ips)
          THEN ip_queue' = [ip_queue EXCEPT
                  !.queue = Append(@, ip),
                  !.allocated_ips = @ \cup {ip},
                  !.allocated = @ + 1,
                  !.allocation_complete = (ip_queue.allocated + 1 = ip_queue.target_size)]
          ELSE ip_queue' = [ip_queue EXCEPT
                  !.failed_attempts = @ + 1,
                  !.allocation_complete = (ip_queue.failed_attempts + 1 >= MaxAllocFailures)]
    /\ UNCHANGED <<envVars, trackerVars, mgrVars, pulled_ips, wfVars, cloudVars, fetcherVars,
                   pc, caller, loopVars, rotVars, outVars, histVars>>

\* Mutant: a pulled connection goes back to the end of the queue.
QueueAfterPull_Recycles(queue) ==
    Append(Tail(queue), Head(queue))

\* The queue once its first connection has been pulled.
QueueAfterPull(queue) ==
    Tail(queue)

\* get_next_connection(worker_id): the worker gets the connection at the
\* head of the queue for itself; on an empty queue the call yields no
\* connection (it times out).
GetNextConnection(w) ==
    /\ ip_queue.allocation_complete
    /\ Len(pulled_ips) <= ip_queue.target_size
    /\ IF ip_queue.queue # <<>>
       THEN /\ pulled_ips' = Append(pulled_ips,
                                [worker_id |-> w, exit_ip |-> Head(ip_queue.queue)])
            /\ ip_queue' = [ip_queue EXCEPT !.queue = QueueAfterPull(@)]
       ELSE /\ pulled_ips' = Append(pulled_ips, [worker_id |-> w, exit_ip |-> NoIp])
            /\ UNCHANGED ip_queue
    /\ UNCHANGED <<envVars, trackerVars, mgrVars, wfVars, cloudVars, fetcherVars, pc, caller,
                   loopVars, rotVars, outVars, histVars>>

\* Worker w was handed a pooled connection.
HasConnection(w) ==
    \E i \in 1..Len(pulled_ips) :
        pulled_ips[i].worker_id = w /\ pulled_ips[i].exit_ip # NoIp

\* TorTranscriptFetcher(session=session, proxies=proxies, exit_ip=exit_ip)
\* for the pooled connection: __init__ takes tor_host, tor_port,
\* tor_control_port and tor_control_password only, so the call raises
\* TypeError and no fetcher exists.
PreconfigFetcher(w) ==
    /\ pc[w] = "off"
    /\ HasConnection(w)
    /\ pc' = [pc EXCEPT ![w] = "type_error"]
    /\ raised' = [raised EXCEPT ![w] = TRUE]
    /\ UNCHANGED <<envVars, trackerVars, mgrVars, poolVars, wfVars, cloudVars, fetcherVars, caller,
                   loopVars, rotVars, fetchResult, result, stats, histVars>>

\* TorTranscriptFetcher(): the legacy construction, on the default ports.
LegacyFetcher(w) ==
    /\ pc[w] = "off"
    /\ HasConnection(w)
    /\ tor_port' = [tor_port EXCEPT ![w] = DefaultSocksPort]
    /\ tor_control_port' = [tor_control_port EXCEPT ![w] = DefaultControlPort]
    /\ control_port_available' = [control_port_available EXCEPT ![w] = TRUE]
    /\ pc' = [pc EXCEPT ![w] = "idle"]
    /\ UNCHANGED <<envVars, trackerVars, mgrVars, poolVars, wfVars, cloudVars, worker_id, nfetchers,
                   coordination_lock, caller, loopVars, rotVars, outVars, histVars>>

\* get_stats()
QueueStats ==
    [target_size |-> ip_queue.target_size, allocated |-> ip_queue.allocated,
     failed_attempts |-> ip_queue.failed_attempts,
     queue_size |-> Len(ip_queue.queue),
     allocation_complete |-> ip_queue.allocation_complete]

\* ------------------------------------------------------- video workflow
\* The nodes a conditional edge may route to or around.
OptionalNodes ==
    {"categorize", "generate_assessment", "export_pdf"}

\* The workflow state before process_video_with_langgraph is called.
\* "invoked" are the nodes the graph has called, "executed" the nodes whose
\* function ran and returned, "decided" the outcome of each conditional edge,
\* "logged" the job_logger.log_job calls that went through, "returned" the
\* result process_single_url gave back.
NoRun ==
    [node |-> "none", auto_categorize |-> FALSE, subject |-> "None",
     generate_assessment |-> FALSE, export_pdf |-> FALSE,
     failed |-> FALSE, completed |-> FALSE, error |-> "None",
     invoked |-> {}, executed |-> {}, logged |-> 0, returned |-> "nothing",
     decided |-> [n \in OptionalNodes |-> "undecided"]]

\* Python truthiness of the subject: None and the empty string are false.
Truthy(subject) ==
    subject \notin {"None", ""}

\* should_categorize(state)
should_categorize(state) ==
    IF state.auto_categorize /\ ~Truthy(state.subject)
    THEN "categorize" ELSE "skip_categorize"

\* should_generate_assessment(state)
should_generate_assessment(state) ==
    IF state.generate_assessment THEN "generate_assessment" ELSE "skip_assessment"

\* should_export_pdf(state)
should_export_pdf(state) ==
    IF state.export_pdf THEN "export_pdf" ELSE "skip_export"

\* The mappings given to add_conditional_edges.
EdgeTarget(decision) ==
    CASE decision = "categorize" -> "categorize"
      [] decision = "skip_categorize" -> "generate_notes"
      [] decision = "generate_assessment" -> "generate_assessment"
      [] decision = "skip_assessment" -> "write_files"
      [] decision = "export_pdf" -> "export_pdf"
      [] decision = "skip_export" -> "log_job"

\* The parameters of categorize_node besides the state, and the ones the
\* partial in create_workflow binds.
CategorizeParams ==
    {"video_processor", "auto_categorizer", "base_dir"}
CategorizeBound ==
    {"auto_categorizer", "base_dir"}

\* A call with the state alone binds every parameter.
CallBinds(params, bound) ==
    params \subseteq bound

\* The workflow's variables are the only ones a node touches.
WorkflowFrame ==
    UNCHANGED <<envVars, trackerVars, mgrVars, poolVars, cloudVars, fetcherVars, pc,
                caller, loopVars, rotVars, outVars, histVars>>

\* Mutant: the failed state is marked completed as well.
Abort_Completed(state, node, error) ==
    [state EXCEPT !.node = "aborted", !.failed = TRUE, !.completed = TRUE,
                  !.error = error, !.invoked = @ \cup {node}]

\* An exception leaves app.invoke: process_video_with_langgraph returns the
\* failed state.
Abort(state, node, error) ==
    [state EXCEPT !.node = "aborted", !.failed = TRUE, !.error = error,
                  !.invoked = @ \cup {node}]

\* compile_workflow raised inside the try (create_workflow reads a required
\* component the dict does not have): the failed state is returned and no
\* node was called.
AbortCompile(state, error) ==
    [state EXCEPT !.node = "aborted", !.failed = TRUE, !.error = error]

\* A node function returned: the graph follows the edge to the next node.
Leave(state, node, next) ==
    [state EXCEPT !.node = next, !.invoked = @ \cup {node},
                  !.executed = @ \cup {node}]

\* process_video_with_langgraph(url, video_id, components: dict, subject,
\* auto_categorize, generate_assessment, export_pdf): the initial state is
\* built; compile_workflow, inside the try, raises KeyError when the dict
\* lacks a required component; otherwise the graph is entered at
\* fetch_transcript.
StartWorkflow ==
    /\ wf.node = "none"
    /\ wf.returned = "nothing"
    /\ \E subject \in {"None", "", "Math"}, auto_categorize \in BOOLEAN,
          generate_assessment \in BOOLEAN, export_pdf \in BOOLEAN,
          components \in {"complete", "missing_required"} :
          LET initial_state == [wf EXCEPT !.subject = subject,
                                          !.auto_categorize = auto_categorize,
                                          !.generate_assessment = generate_assessment,
                                          !.export_pdf = export_pdf]
          IN  wf' = IF components = "missing_required"
                    THEN AbortCompile(initial_state, "KeyError")
                    ELSE [initial_state EXCEPT !.node = "fetch_transcript"]
    /\ WorkflowFrame

\* fetch_transcript_node: a failure sets failed and is re-raised; otherwise
\* the conditional edge should_categorize is taken.
FetchTranscriptNode ==
    /\ wf.node = "fetch_transcript"
    /\ \E ok \in BOOLEAN :
          IF ok
          THEN LET d == should_categorize(wf)
               IN  wf' = [Leave(wf, "fetch_transcript", EdgeTarget(d)) EXCEPT
                             !.decided["categorize"] =
                                 IF d = "categorize" THEN "yes" ELSE "no"]
          ELSE wf' = Abort(wf, "fetch_transcript", "Transcript fetch failed")
    /\ WorkflowFrame

\* The graph calls partial(categorize_node, auto_categorizer=..., base_dir=...)
\* with the state.  If the call binds, the node sets the detected subject, or
\* on an error inside it notes the error and goes on; then generate_notes.
CategorizeNode ==
    /\ wf.node = "categorize"
    /\ IF CallBinds(CategorizeParams, CategorizeBound)
       THEN \E ok \in BOOLEAN :
               wf' = [Leave(wf, "categorize", "generate_notes") EXCEPT
                         !.subject = IF ok THEN "detected" ELSE @,
                         !.error = IF ok THEN @ ELSE "Categorization failed"]
       ELSE wf' = Abort(wf, "categorize", "TypeError")
    /\ WorkflowFrame

\* generate_notes_node: a failure sets failed and is re-raised; otherwise the
\* conditional edge should_generate_assessment is taken.
GenerateNotesNode ==
    /\ wf.node = "generate_notes"
    /\ \E ok \in BOOLEAN :
          IF ok
          THEN LET d == should_generate_assessment(wf)
               IN  wf' = [Leave(wf, "generate_notes", EdgeTarget(d)) EXCEPT
                             !.decided["generate_assessment"] =
                                 IF d = "generate_assessment" THEN "yes" ELSE "no"]
          ELSE wf' = Abort(wf, "generate_notes", "Notes generation failed")
    /\ WorkflowFrame

\* generate_assessment_node: an error is noted, the workflow goes on.
GenerateAssessmentNode ==
    /\ wf.node = "generate_assessment"
    /\ \E ok \in BOOLEAN :
          wf' = [Leave(wf, "generate_assessment", "write_files") EXCEPT
                    !.error = IF ok THEN @ ELSE "Assessment generation failed"]
    /\ WorkflowFrame

\* write_files_node: a failure sets failed and is re-raised.
WriteFilesNode ==
    /\ wf.node = "write_files"
    /\ \E ok \in BOOLEAN :
          IF ok
          THEN wf' = Leave(wf, "write_files", "obsidian_links")
          ELSE wf' = Abort(wf, "write_files", "File writing failed")
    /\ WorkflowFrame

\* obsidian_links_node: an error is noted; then the conditional edge
\* should_export_pdf is taken.
ObsidianLinksNode ==
    /\ wf.node = "obsidian_links"
    /\ \E ok \in BOOLEAN :
          LET d == should_export_pdf(wf)
          IN  wf' = [Leave(wf, "obsidian_links", EdgeTarget(d)) EXCEPT
                        !.error = IF ok THEN @ ELSE "Obsidian linking failed",
                        !.decided["export_pdf"] =
                            IF d = "export_pdf" THEN "yes" ELSE "no"]
    /\ WorkflowFrame

\* export_pdf_node: an error is noted, the workflow goes on.
ExportPdfNode ==
    /\ wf.node = "export_pdf"
    /\ \E ok \in BOOLEAN :
          wf' = [Leave(wf, "export_pdf", "log_job") EXCEPT
                    !.error = IF ok THEN @ ELSE "PDF export failed"]
    /\ WorkflowFrame

\* log_job_node, then END: job_logger.log_job(job) is called once, an error
\* in the node is logged as a warning and the node returns;
\* process_video_with_langgraph marks the final state completed.
LogJobNode ==
    /\ wf.node = "log_job"
    /\ \E ok \in BOOLEAN :
          wf' = [Leave(wf, "log_job", "END") EXCEPT
                    !.completed = TRUE,
                    !.logged = IF ok THEN @ + 1 ELSE @]
    /\ WorkflowFrame

\* process_single_url with a URL that has no video id: the failure result is
\* returned and the workflow is not started.
InvalidUrl ==
    /\ wf.node = "none"
    /\ wf.returned = "nothing"
    /\ wf' = [wf EXCEPT !.returned = "invalid"]
    /\ WorkflowFrame

\* process_single_url after process_video_with_langgraph returned its state:
\* the knowledge graph cache is refreshed and the result is built with
\* success = completed; an exception gives the failure result.  Nothing is
\* logged here.
ProcessSingleUrlReturn ==
    /\ wf.node \in {"aborted", "END"}
    /\ wf.returned = "nothing"
    /\ \E ok \in BOOLEAN :
          wf' = [wf EXCEPT !.returned =
                    IF ok /\ wf.completed THEN "success" ELSE "failure"]
    /\ WorkflowFrame

\* ------------------------------------------------------ Lambda handlers
Invocations ==
    1..NumInvocations

\* An invocation that has not received its event.
\* Identifiers: validate_youtube_url gives the 11-character YouTube id,
\* generate_id('video') gives "video_<milliseconds>_<random>", one per call.
NoVideoId ==
    [prefix |-> "none", n |-> 0]
YouTubeIds ==
    {[prefix |-> "youtube", n |-> k] : k \in 1..NumVideos}
generate_id(prefix, i) ==
    [prefix |-> prefix, n |-> i]
\* The invocations that serve submit_video requests.
Requests ==
    1..NumRequests
\* validate_youtube_url returns the v= value (or the youtu.be path) as it
\* is: the id of a YouTube video, or any other text, such as the internal id
\* under which the first request's record is stored.
UrlVideoIds ==
    YouTubeIds \cup {generate_id("video", 1)}
IdleInvocation ==
    [pc |-> "idle", handler |-> "none", status |-> 0, processed |-> FALSE,
     existing |-> FALSE, credits |-> 0, deducted |-> "none",
     youtube_video_id |-> NoVideoId, video_id |-> NoVideoId]

\* Everything but the backend's variables.
CloudFrame ==
    UNCHANGED <<envVars, trackerVars, mgrVars, poolVars, wfVars, fetcherVars, pc,
                caller, loopVars, rotVars, outVars, histVars, proc>>

\* The handler returns: success_response / error_response with this status.
Respond(i, status, processed) ==
    [lam EXCEPT ![i].pc = "done", ![i].status = status, ![i].processed = processed]

\* ---- stripe_webhook
\* The payment intent every delivery is about.
PaymentIntent ==
    [id |-> "pi_1", user_id |-> "user", credits |-> PurchaseCredits]

\* stripe_webhook.lambda_handler up to the call of handle_payment_success:
\* signature header, import of the stripe package (500 when it is not
\* installed), signature verification, event type, metadata.  Any other
\* exception reaches the outer handler, which answers 200.
WebhookReceive(i) ==
    /\ lam[i].pc = "idle"
    /\ \E sig \in {"missing", "no_stripe", "invalid_payload", "invalid_signature",
                    "raises", "valid"},
          event_type \in {"payment_intent.succeeded", "payment_intent.payment_failed",
                          "other"},
          metadata_ok \in BOOLEAN :
          lam' = CASE sig = "missing" ->
                      [Respond(i, 401, FALSE) EXCEPT ![i].handler = "stripe_webhook"]
                   [] sig = "no_stripe" ->
                      [Respond(i, 500, FALSE) EXCEPT ![i].handler = "stripe_webhook"]
                   [] sig = "raises" ->
                      [Respond(i, 200, FALSE) EXCEPT ![i].handler = "stripe_webhook"]
                   [] sig = "invalid_payload" ->
                      [Respond(i, 400, FALSE) EXCEPT ![i].handler = "stripe_webhook"]
                   [] sig = "invalid_signature" ->
                      [Respond(i, 401, FALSE) EXCEPT ![i].handler = "stripe_webhook"]
                   [] sig = "valid" /\ event_type # "payment_intent.succeeded" ->
                      [Respond(i, 200, FALSE) EXCEPT ![i].handler = "stripe_webhook"]
                   [] sig = "valid" /\ event_type = "payment_intent.succeeded"
                         /\ ~metadata_ok ->
                      [Respond(i, 200, FALSE) EXCEPT ![i].handler = "stripe_webhook"]
                   [] OTHER ->
                      [lam EXCEPT ![i].pc = "add_check", ![i].handler = "stripe_webhook"]
    /\ UNCHANGED <<user_credits, credits_table, videos_table, video_queue>>
    /\ CloudFrame

\* add_credits: "existing = get_item(CREDITS_TABLE, {'transaction_id': ...})";
\* a transaction already there ends the call.  An error of the table is
\* raised, and handle_payment_success's caller answers 200, processed False.
AddCreditsCheck(i) ==
    /\ lam[i].pc = "add_check"
    /\ \E ok \in BOOLEAN :
          lam' = IF ~ok THEN Respond(i, 200, FALSE)
                 ELSE IF PaymentIntent.id \in credits_table
                      THEN [Respond(i, 200, TRUE) EXCEPT ![i].existing = TRUE]
                      ELSE [lam EXCEPT ![i].pc = "add_update"]
    /\ UNCHANGED <<user_credits, credits_table, videos_table, video_queue>>
    /\ CloudFrame

\* add_credits: update_item "SET credits = if_not_exists(credits, 0) + amount"
AddCreditsUpdate(i) ==
    /\ lam[i].pc = "add_update"
    /\ \E ok \in BOOLEAN :
          IF ok
          THEN /\ user_credits' = user_credits + PaymentIntent.credits
               /\ lam' = [lam EXCEPT ![i].pc = "add_put"]
          ELSE /\ lam' = Respond(i, 200, FALSE)
               /\ UNCHANGED user_credits
    /\ UNCHANGED <<credits_table, videos_table, video_queue>>
    /\ CloudFrame

\* add_credits: put_item(CREDITS_TABLE, {'transaction_id': ..., ...})
AddCreditsPut(i) ==
    /\ lam[i].pc = "add_put"
    /\ \E ok \in BOOLEAN :
          IF ok
          THEN /\ credits_table' = credits_table \cup {PaymentIntent.id}
               /\ lam' = Respond(i, 200, TRUE)
          ELSE /\ lam' = Respond(i, 200, FALSE)
               /\ UNCHANGED credits_table
    /\ UNCHANGED <<user_credits, videos_table, video_queue>>
    /\ CloudFrame

\* ---- submit_video
\* lambda_handler up to the validated URL: authentication, JSON body, url
\* field, validate_youtube_url.  A body that is None or not a JSON object,
\* or a url that is not a string, raises TypeError or AttributeError, which
\* the outer "except Exception" answers with 500.
SubmitReceive(i) ==
    /\ lam[i].pc = "idle"
    /\ \E request \in {"no_token", "bad_json", "malformed", "no_url", "invalid_url",
                        "valid"},
          video_id \in UrlVideoIds :
          lam' = CASE request = "no_token" ->
                      [Respond(i, 401, FALSE) EXCEPT ![i].handler = "submit_video"]
                   [] request \in {"bad_json", "no_url", "invalid_url"} ->
                      [Respond(i, 400, FALSE) EXCEPT ![i].handler = "submit_video"]
                   [] request = "malformed" ->
                      [Respond(i, 500, FALSE) EXCEPT ![i].handler = "submit_video"]
                   [] OTHER ->
                      [lam EXCEPT ![i].pc = "lookup", ![i].handler = "submit_video",
                                  ![i].youtube_video_id = video_id]
    /\ UNCHANGED <<user_credits, credits_table, videos_table, video_queue>>
    /\ CloudFrame

\* "existing_video = get_item(VIDEOS_TABLE, {'video_id': video_id, ...})"
\* with video_id the YouTube id taken from the URL.
SubmitLookup(i) ==
    /\ lam[i].pc = "lookup"
    /\ \E ok \in BOOLEAN :
          lam' = IF ~ok THEN Respond(i, 500, FALSE)
                 ELSE IF \E r \in videos_table : r.video_id = lam[i].youtube_video_id
                      THEN [Respond(i, 200, FALSE) EXCEPT ![i].existing = TRUE]
                      ELSE [lam EXCEPT ![i].pc = "read_credits"]
    /\ UNCHANGED <<user_credits, credits_table, videos_table, video_queue>>
    /\ CloudFrame

\* "credits = get_user_credits(user_id)"; "if credits < 1" answers 402.
SubmitReadCredits(i) ==
    /\ lam[i].pc = "read_credits"
    /\ \E ok \in BOOLEAN :
          lam' = IF ~ok THEN Respond(i, 500, FALSE)
                 ELSE IF user_credits < 1
                      THEN [Respond(i, 402, FALSE) EXCEPT ![i].credits = user_credits]
                      ELSE [lam EXCEPT ![i].pc = "deduct", ![i].credits = user_credits]
    /\ UNCHANGED <<user_credits, credits_table, videos_table, video_queue>>
    /\ CloudFrame

\* deduct_credits: ConditionExpression='credits >= :amount'
CanDeduct_Unconditional(balance, amount) ==
    TRUE

CanDeduct(balance, amount) ==
    balance >= amount

\* deduct_credits(user_id, 1): one conditional update_item.  True when it
\* was applied, False on ConditionalCheckFailedException (the handler then
\* answers 500), any other ClientError is raised (500 as well).
SubmitDeduct(i) ==
    /\ lam[i].pc = "deduct"
    /\ \E ok \in BOOLEAN :
          IF ~ok
          THEN /\ lam' = [Respond(i, 500, FALSE) EXCEPT ![i].deducted = "raised"]
               /\ UNCHANGED user_credits
          ELSE IF CanDeduct(user_credits, 1)
               THEN /\ user_credits' = user_credits - 1
                    /\ lam' = [lam EXCEPT ![i].pc = "put", ![i].deducted = "True"]
               ELSE /\ lam' = [Respond(i, 500, FALSE) EXCEPT ![i].deducted = "False"]
                    /\ UNCHANGED user_credits
    /\ UNCHANGED <<credits_table, videos_table, video_queue>>
    /\ CloudFrame

\* "internal_video_id = generate_id('video')", "put_item(VIDEOS_TABLE,
\* video_record)"; an error is caught by the handler's except: 500.
SubmitPut(i) ==
    /\ lam[i].pc = "put"
    /\ \E ok \in BOOLEAN :
          LET internal_video_id == generate_id("video", i)
              video_record == [video_id |-> internal_video_id,
                               youtube_video_id |-> lam[i].youtube_video_id,
                               status |-> "queued"]
          IN  IF ok
              THEN /\ videos_table' = videos_table \cup {video_record}
                   /\ lam' = [lam EXCEPT ![i].pc = "send",
                                         ![i].video_id = internal_video_id]
              ELSE /\ lam' = [Respond(i, 500, FALSE) EXCEPT
                                 ![i].video_id = internal_video_id]
                   /\ UNCHANGED videos_table
    /\ UNCHANGED <<user_credits, credits_table, video_queue>>
    /\ CloudFrame

\* "send_sqs_message(VIDEO_QUEUE_URL, message_body)", then 201.
SubmitSend(i) ==
    /\ lam[i].pc = "send"
    /\ \E ok \in BOOLEAN :
          IF ok
          THEN /\ video_queue' = Append(video_queue,
                                        [video_id |-> lam[i].video_id,
                                         youtube_video_id |-> lam[i].youtube_video_id])
               /\ lam' = Respond(i, 201, TRUE)
          ELSE /\ lam' = Respond(i, 500, FALSE)
               /\ UNCHANGED video_queue
    /\ UNCHANGED <<user_credits, credits_table, videos_table>>
    /\ CloudFrame

\* ---- process_video
\* Progress percentages a CLI event may carry.
ProgressValues ==
    {0, 50, 92, 100}

\* No queue message is being handled.
IdleProcess ==
    [pc |-> "idle", last_progress |-> 0, output_file |-> FALSE, events |-> 0,
     status |-> "queued", progress_written |-> <<>>]

ProcessFrame ==
    UNCHANGED <<envVars, trackerVars, mgrVars, poolVars, wfVars, fetcherVars, pc,
                caller, loopVars, rotVars, outVars, histVars, user_credits,
                credits_table, videos_table, video_queue, lam>>

\* update_video_progress(video_id, progress, 'processing', message): one
\* update_item that sets the record's status and progress.
update_video_progress(p, progress) ==
    [p EXCEPT !.status = "processing",
              !.progress_written = Append(@, progress)]

\* lambda_handler up to the CLI: the message is parsed and the record is
\* set to 'processing' with progress 0.  A message without its fields
\* raises before video_id is known; a failed update is handled below.
ProcessReceive ==
    /\ proc.pc = "idle"
    /\ \E message_ok \in BOOLEAN, ok \in BOOLEAN :
          proc' = IF ~message_ok THEN [proc EXCEPT !.pc = "raised"]
                  ELSE IF ~ok THEN [proc EXCEPT !.pc = "failing"]
                  ELSE [update_video_progress(proc, 0) EXCEPT !.pc = "cli"]
    /\ ProcessFrame

\* process_video_with_cli, one line of the CLI's output: a line that is not
\* JSON (or is a falsy JSON value) is logged; a JSON value that is no object,
\* or a progress that is no number, raises inside the loop; a progress event
\* is written to the record "if progress > last_progress"; a 'complete'
\* event with a 'file' key sets output_file to the key's value, which may be
\* empty or null.
CliEvent ==
    /\ proc.pc = "cli"
    /\ proc.events < MaxEvents
    /\ \E kind \in {"text", "malformed", "progress", "complete"},
          progress \in ProgressValues,
          has_file \in BOOLEAN, file_truthy \in BOOLEAN, ok \in BOOLEAN :
          LET seen == [proc EXCEPT !.events = @ + 1]
              written == IF progress > proc.last_progress
                         THEN [update_video_progress(seen, progress) EXCEPT
                                  !.last_progress = progress]
                         ELSE seen
          IN  proc' = IF kind = "text" THEN seen
                      ELSE IF kind = "malformed" THEN [seen EXCEPT !.pc = "failing"]
                      ELSE IF progress > proc.last_progress /\ ~ok
                           THEN [seen EXCEPT !.pc = "failing"]
                           ELSE [written EXCEPT !.output_file =
                                    IF kind = "complete" /\ has_file
                                    THEN file_truthy ELSE @]
    /\ ProcessFrame

\* process_video_with_cli after the last line: process.wait; a timeout, a
\* return code other than 0 or a missing output file raises
\* VideoProcessingError.
CliExit ==
    /\ proc.pc = "cli"
    /\ \E outcome \in {"zero", "nonzero", "timeout"} :
          proc' = IF outcome = "zero" /\ proc.output_file
                  THEN [proc EXCEPT !.pc = "upload"]
                  ELSE [proc EXCEPT !.pc = "failing"]
    /\ ProcessFrame

\* "if not note_file.exists(): raise"; update_video_progress(video_id, 90,
\* 'processing', 'Uploading to S3'); upload_note_to_s3.
ProcessUpload ==
    /\ proc.pc = "upload"
    /\ \E exists \in BOOLEAN, ok \in BOOLEAN, uploaded \in BOOLEAN :
          proc' = IF ~exists \/ ~ok THEN [proc EXCEPT !.pc = "failing"]
                  ELSE [update_video_progress(proc, 90) EXCEPT
                           !.pc = IF uploaded THEN "save" ELSE "failing"]
    /\ ProcessFrame

\* update_video_progress(video_id, 95, 'processing', 'Saving metadata');
\* save_note_metadata.
ProcessSave ==
    /\ proc.pc = "save"
    /\ \E ok \in BOOLEAN, saved_note \in BOOLEAN :
          proc' = IF ~ok THEN [proc EXCEPT !.pc = "failing"]
                  ELSE [update_video_progress(proc, 95) EXCEPT
                           !.pc = IF saved_note THEN "complete" ELSE "failing"]
    /\ ProcessFrame

\* update_item(... 'status': 'completed', 'progress': 100 ...), then 200.
ProcessComplete ==
    /\ proc.pc = "complete"
    /\ \E ok \in BOOLEAN :
          proc' = IF ~ok THEN [proc EXCEPT !.pc = "failing"]
                  ELSE [proc EXCEPT !.pc = "done", !.status = "completed",
                                    !.progress_written = Append(@, 100)]
    /\ ProcessFrame

\* The handlers of VideoProcessingError and Exception: update_item sets the
\* status to 'failed' (the progress is left as it is) and the error is
\* raised again; so it is when this update fails too.
ProcessFail ==
    /\ proc.pc = "failing"
    /\ \E ok \in BOOLEAN :
          proc' = [proc EXCEPT !.pc = "raised",
                               !.status = IF ok THEN "failed" ELSE @]
    /\ ProcessFrame

\* ----------------------------------------------------------------- Init
EmptyStats ==
    [tor_success |-> 0, tor_failure |-> 0, ytdlp_success |-> 0,
     ytdlp_failure |-> 0, total_attempts |-> 0]

\* Frames and histories before any call, with a tracker whose save() raises
\* on a failed write or one that logs it and returns.
InitFramesWith(escalates) ==
    /\ save_escalates = escalates
    /\ caller = [w \in Workers |-> "none"]
    /\ max_retries = [w \in Workers |-> DefaultMaxRetries]
    /\ is_available = [w \in Workers |-> "unchecked"]
    /\ loop_i = [w \in Workers |-> 0]
    /\ attempt = [w \in Workers |-> 0]
    /\ probed_ip = [w \in Workers |-> NotProbed]
    /\ rotation_success = [w \in Workers |-> FALSE]
    /\ failed_ips = [w \in Workers |-> {}]
    /\ rot_attempt = [w \in Workers |-> 0]
    /\ rotation_attempts = [w \in Workers |-> 0]
    /\ newnym_sent = [w \in Workers |-> 0]
    /\ rotEnd = [w \in Workers |-> "none"]
    /\ rotSeen = [w \in Workers |-> NothingSeen]
    /\ fetchResult = [w \in Workers |-> "pending"]
    /\ result = [w \in Workers |-> "pending"]
    /\ raised = [w \in Workers |-> FALSE]
    /\ stats = [w \in Workers |-> EmptyStats]
    /\ nrec = [w \in Workers |-> 0]
    /\ lastRec = [w \in Workers |-> NoRecord]
    /\ primaryOk = [w \in Workers |-> FALSE]
    /\ secondaryCalls = [w \in Workers |-> 0]
    /\ ytdlp_result = [w \in Workers |-> "pending"]
    /\ usedIp = [w \in Workers |-> Unknown]
    /\ prelude = [w \in Workers |-> <<>>]
    /\ saved = [w \in Workers |-> FALSE]
    /\ calls = [w \in Workers |-> [fetch |-> 0, rotate |-> 0]]
    /\ clock = 1

\* Frames and histories before any call; the tracker is the one section 7
\* of the specification describes: a failure to persist is logged inside
\* save(), not escalated.
InitFrames ==
    InitFramesWith(FALSE)

\* No Lambda invocation is in progress; the tables and the queue are empty.
NoCloud ==
    /\ user_credits = 0
    /\ credits_table = {}
    /\ videos_table = {}
    /\ video_queue = <<>>
    /\ lam = [i \in Invocations |-> IdleInvocation]
    /\ proc = IdleProcess

\* No video workflow is running.
NoWorkflow ==
    wf = NoRun

\* The daemon instances in use have some circuit; no NEWNYM was sent yet.
InitEnv(used) ==
    /\ \E c \in [used -> IPs] :
          circuit = [p \in SocksPorts |-> IF p \in used THEN c[p] ELSE 1]
    /\ lastNewnym = [p \in SocksPorts |-> "none"]
    /\ signallers = [p \in SocksPorts |-> {}]
    /\ newnymRace = FALSE
    /\ lockHolder = [p \in SocksPorts |-> NoWorker]

\* The tracker as loaded at process start: no file, or the record of earlier
\* failed attempts of the day.
TrackerWithFailures(F) ==
    Load([ip \in F |-> [last_used |-> IsoFormat(0), use_count |-> 1,
                        success_count |-> 0, fail_count |-> 1]])

DefaultArgs ==
    [base_socks_port |-> DefaultSocksPort, base_control_port |-> DefaultControlPort,
     port_increment |-> DefaultPortIncrement, max_instances |-> DefaultMaxInstances]

\* No TorExitNodeManager was constructed.
NoManager ==
    /\ openPorts = {DefaultSocksPort}
    /\ mgrArgs = DefaultArgs
    /\ instances = <<>>
    /\ constructed = FALSE
    /\ mgr_out = NoOutput
    /\ nfetchers = [w \in Workers |-> 0]

\* One TorTranscriptFetcher() on the default ports, used by one worker
\* (sequential mode: no coordination lock, no manager).
Init ==
    /\ InitEnv({DefaultSocksPort})
    /\ \E F \in {{}, {1}} : tracker = TrackerWithFailures(F)
    /\ persisted = Save(tracker)
    /\ at_save = tracker
    /\ NoManager
    /\ worker_id = [w \in Workers |-> w]
    /\ tor_port = [w \in Workers |-> IF w = 0 THEN DefaultSocksPort ELSE 0]
    /\ tor_control_port = [w \in Workers |-> IF w = 0 THEN DefaultControlPort ELSE 0]
    /\ control_port_available = [w \in Workers |-> TRUE]
    /\ coordination_lock = [w \in Workers |-> None]
    /\ pc = [w \in Workers |-> IF w = 0 THEN "idle" ELSE "off"]
    /\ InitFrames
    /\ NoPool
    /\ NoWorkflow
    /\ NoCloud

Rotate(w) ==
    \/ RotEntry(w)
    \/ RotAcquire(w)
    \/ RotConnect(w)
    \/ RotSignal(w)
    \/ RotWait(w)
    \/ RotProbe(w)

Next ==
    \E w \in Workers :
        \/ StartFetch(w)
        \/ CheckAvailability(w)
        \/ LoopHead(w)
        \/ Rotate(w)
        \/ PostRotation(w)
        \/ Penalty(w)
        \/ Backoff(w)
        \/ Fetch(w)
        \/ ProbeExitIp(w)
        \/ RecordFailure(w)
        \/ AttemptFailed(w)
        \/ RecordSuccess(w)
        \/ SaveAfterSuccess(w)
        \/ SaveAfterExhaustion(w)
        \/ FetchReturn(w)
        \/ Fallback(w)
        \/ ProviderReturn(w)

Spec ==
    Init /\ [][Next]_vars

\* A step of fetch_transcript under way.
FetchTranscriptStep(w) ==
    \/ CheckAvailability(w)
    \/ LoopHead(w)
    \/ Rotate(w)
    \/ PostRotation(w)
    \/ Penalty(w)
    \/ Backoff(w)
    \/ Fetch(w)
    \/ ProbeExitIp(w)
    \/ RecordFailure(w)
    \/ AttemptFailed(w)
    \/ RecordSuccess(w)
    \/ SaveAfterSuccess(w)
    \/ SaveAfterExhaustion(w)
    \/ FetchReturn(w)

\* A step of a call that is under way: everything but the consumer's
\* decision to start one.
Running(w) ==
    \/ FetchTranscriptStep(w)
    \/ Fallback(w)
    \/ ProviderReturn(w)

\* The fetcher starts on an exit address that already failed today.
InitLive ==
    /\ Init
    /\ tracker = TrackerWithFailures({1})
    /\ circuit[DefaultSocksPort] = 1

\* The consumers of that fetcher: TorTranscriptProvider.get_transcript, which
\* goes through fetch_with_fallback, and fetch_transcript on its own.
NextLive ==
    \/ \E c \in {"provider", "fetch"}, n \in 1..MaxRetriesArg : StartFetchAs(0, c, n)
    \/ Running(0)

\* The same fetcher, with every network call, sleep and call of the
\* secondary fetcher returning: a call under way takes its next step.
SpecLive ==
    InitLive /\ [][NextLive]_vars /\ WF_vars(Running(0))

\* The same fetcher with a tracker whose save() raises when the write fails:
\* fetch_transcript calls save() unguarded, inside the loop's try after a
\* success and outside any try after the loop.
InitSave ==
    /\ InitEnv({DefaultSocksPort})
    /\ tracker = EmptyTracker
    /\ persisted = Save(tracker)
    /\ at_save = tracker
    /\ circuit[DefaultSocksPort] = 1
    /\ NoManager
    /\ worker_id = [w \in Workers |-> w]
    /\ tor_port = [w \in Workers |-> IF w = 0 THEN DefaultSocksPort ELSE 0]
    /\ tor_control_port = [w \in Workers |-> IF w = 0 THEN DefaultControlPort ELSE 0]
    /\ control_port_available = [w \in Workers |-> TRUE]
    /\ coordination_lock = [w \in Workers |-> None]
    /\ pc = [w \in Workers |-> IF w = 0 THEN "idle" ELSE "off"]
    /\ InitFramesWith(TRUE)
    /\ NoPool
    /\ NoWorkflow
    /\ NoCloud

NextSave ==
    \/ StartFetch(0)
    \/ Running(0)

SpecSave ==
    InitSave /\ [][NextSave]_vars

\* Parallel mode on one shared daemon: every worker has a fetcher on the
\* default ports, and all of them were given the instance's coordination
\* lock.  The workers only rotate.
InitLock ==
    /\ InitEnv({DefaultSocksPort})
    /\ \E F \in {{}, {1}} : tracker = TrackerWithFailures(F)
    /\ persisted = Save(tracker)
    /\ at_save = tracker
    /\ NoManager
    /\ worker_id = [w \in Workers |-> w]
    /\ tor_port = [w \in Workers |-> DefaultSocksPort]
    /\ tor_control_port = [w \in Workers |-> DefaultControlPort]
    /\ control_port_available = [w \in Workers |-> TRUE]
    /\ coordination_lock = [w \in Workers |-> DefaultSocksPort]
    /\ pc = [w \in Workers |-> "idle"]
    /\ InitFrames
    /\ NoPool
    /\ NoWorkflow
    /\ NoCloud

NextLock ==
    \E w \in Workers :
        \/ RotateCall(w)
        \/ Rotate(w)

SpecLock ==
    InitLock /\ [][NextLock]_vars

\* Parallel mode on one shared daemon: get_fetcher_for_worker gave workers
\* 0 and 1 fetchers on the instance's ports; it passes no lock, so their
\* _coordination_lock is None.  The tracker is the process-wide one, with a
\* failure of address 1 recorded earlier in the day, and the circuit is on
\* address 1.
InitShared ==
    /\ InitEnv({DefaultSocksPort})
    /\ tracker = TrackerWithFailures({1})
    /\ persisted = Save(tracker)
    /\ at_save = tracker
    /\ circuit[DefaultSocksPort] = 1
    /\ NoManager
    /\ worker_id = [w \in Workers |-> w]
    /\ tor_port = [w \in Workers |-> IF w \in {0, 1} THEN DefaultSocksPort ELSE 0]
    /\ tor_control_port = [w \in Workers |-> IF w \in {0, 1} THEN DefaultControlPort ELSE 0]
    /\ control_port_available = [w \in Workers |-> TRUE]
    /\ coordination_lock = [w \in Workers |-> None]
    /\ pc = [w \in Workers |-> IF w \in {0, 1} THEN "idle" ELSE "off"]
    /\ InitFrames
    /\ NoPool
    /\ NoWorkflow
    /\ NoCloud

\* fetch_transcript(video_id, max_retries=1): range(1), no retry.
SingleAttempt ==
    1
\* fetch_transcript(video_id, max_retries=2): range(2), one retry.
OneRetry ==
    2

\* The steps of a fetch_transcript call that never gets to a retry.
SingleAttemptStep(w) ==
    \/ CheckAvailability(w)
    \/ LoopHead(w)
    \/ Fetch(w)
    \/ ProbeExitIp(w)
    \/ RecordFailure(w)
    \/ AttemptFailed(w)
    \/ RecordSuccess(w)
    \/ SaveAfterSuccess(w)
    \/ SaveAfterExhaustion(w)
    \/ FetchReturn(w)

\* Worker 0 calls fetch_transcript(video_id, max_retries=1) while worker 1
\* rotates the shared circuit, as its own retries do.
NextShared ==
    \/ StartFetchAs(0, "fetch", SingleAttempt)
    \/ SingleAttemptStep(0)
    \/ RotateCall(1)
    \/ Rotate(1)

SpecShared ==
    InitShared /\ [][NextShared]_vars

\* Worker 0 calls fetch_transcript(video_id, max_retries=2) and rotates
\* before its retry; meanwhile worker 1 calls
\* fetch_transcript(video_id, max_retries=1) through the same circuit and
\* records its attempt on the same tracker.
NextRetry ==
    \/ StartFetchAs(0, "fetch", OneRetry)
    \/ FetchTranscriptStep(0)
    \/ StartFetchAs(1, "fetch", SingleAttempt)
    \/ SingleAttemptStep(1)

SpecRetry ==
    InitShared /\ [][NextRetry]_vars

\* Parallel mode through the manager: it is constructed with the default
\* arguments, the workers get their fetchers from it and rotate.
InitPar ==
    /\ InitEnv({DefaultSocksPort, DefaultSocksPort + DefaultPortIncrement})
    /\ tracker = EmptyTracker
    /\ persisted = Save(tracker)
    /\ at_save = tracker
    /\ openPorts \in {{}, {DefaultSocksPort},
                      {DefaultSocksPort, DefaultSocksPort + DefaultPortIncrement}}
    /\ mgrArgs = DefaultArgs
    /\ instances = <<>>
    /\ constructed = FALSE
    /\ mgr_out = NoOutput
    /\ nfetchers = [w \in Workers |-> 0]
    /\ \E k \in {1, 2} : worker_id = [w \in Workers |-> k * w]
    /\ tor_port = [w \in Workers |-> 0]
    /\ tor_control_port = [w \in Workers |-> 0]
    /\ control_port_available = [w \in Workers |-> TRUE]
    /\ coordination_lock = [w \in Workers |-> None]
    /\ pc = [w \in Workers |-> "off"]
    /\ InitFrames
    /\ NoPool
    /\ NoWorkflow
    /\ NoCloud

NextPar ==
    \/ Detect
    \/ \E w \in Workers :
          \/ GetFetcher(w)
          \/ RotateCall(w)
          \/ Rotate(w)

SpecPar ==
    InitPar /\ [][NextPar]_vars

\* The manager alone: any arguments, any reachability pattern of the probed
\* ports, consecutive worker ids from any first id.
InitMgr ==
    /\ InitEnv({})
    /\ tracker = EmptyTracker
    /\ persisted = Save(tracker)
    /\ at_save = tracker
    /\ \E b \in BaseSocksPorts, inc \in PortIncrements, m \in 1..MaxInstancesArg :
          mgrArgs = [base_socks_port |-> b, base_control_port |-> b + 1,
                     port_increment |-> inc, max_instances |-> m]
    /\ openPorts \in SUBSET ProbedPorts(mgrArgs)
    /\ instances = <<>>
    /\ constructed = FALSE
    /\ mgr_out = NoOutput
    /\ nfetchers = [w \in Workers |-> 0]
    /\ \E d \in 0..MaxWorkerId : worker_id = [w \in Workers |-> w + d]
    /\ tor_port = [w \in Workers |-> 0]
    /\ tor_control_port = [w \in Workers |-> 0]
    /\ control_port_available = [w \in Workers |-> TRUE]
    /\ coordination_lock = [w \in Workers |-> None]
    /\ pc = [w \in Workers |-> "off"]
    /\ InitFrames
    /\ NoPool
    /\ NoWorkflow
    /\ NoCloud

NextMgr ==
    \/ Detect
    \/ \E w \in Workers : GetFetcher(w)

SpecMgr ==
    InitMgr /\ [][NextMgr]_vars

\* The manager in use: the first worker id is 0, the accessors are called in
\* any order and daemons come and go after the discovery.
InitMgrUse ==
    /\ InitMgr
    /\ worker_id[0] = 0
    /\ mgrArgs.max_instances = MaxInstancesArg

NextMgrUse ==
    \/ Detect
    \/ \E w \in Workers : GetFetcher(w)
    \/ GetInstanceCount
    \/ IsMultiInstance
    \/ GetStats
    \/ PortChange

SpecMgrUse ==
    InitMgrUse /\ [][NextMgrUse]_vars

\* The tracker as the workers' fetchers write to it: every worker has a
\* fetcher on the default ports and records attempts in any order.
InitTracker ==
    /\ InitEnv({DefaultSocksPort})
    /\ tracker = EmptyTracker
    /\ persisted = Save(tracker)
    /\ at_save = tracker
    /\ NoManager
    /\ worker_id = [w \in Workers |-> w]
    /\ tor_port = [w \in Workers |-> DefaultSocksPort]
    /\ tor_control_port = [w \in Workers |-> DefaultControlPort]
    /\ control_port_available = [w \in Workers |-> TRUE]
    /\ coordination_lock = [w \in Workers |-> None]
    /\ pc = [w \in Workers |-> "idle"]
    /\ InitFrames
    /\ NoPool
    /\ NoWorkflow
    /\ NoCloud

NextTracker ==
    \E w \in Workers : RecordAttemptCall(w)

SpecTracker ==
    InitTracker /\ [][NextTracker]_vars

\* DailyExitTracker.save(), called between recorded attempts: the document
\* is written, or the write fails and the document stays as it was.
SaveTracker ==
    /\ \E outcome \in SaveOutcomes :
          /\ persisted' = Persist(outcome)
          /\ at_save' = LastWritten(outcome)
    /\ UNCHANGED <<envVars, tracker, clock, save_escalates, mgrVars, poolVars, wfVars, cloudVars, fetcherVars, pc, caller,
                   loopVars, rotVars, outVars, histVars>>

\* The process restarts: the tracker is constructed again from the document.
Reload ==
    /\ tracker' = Load(persisted)
    /\ UNCHANGED <<envVars, persisted, clock, save_escalates, at_save, mgrVars, poolVars, wfVars, cloudVars, fetcherVars, pc, caller,
                   loopVars, rotVars, outVars, histVars>>

\* Time passes between two recorded attempts.
Tick ==
    /\ clock < MaxClock
    /\ clock' = clock + 1
    /\ UNCHANGED <<envVars, tracker, persisted, save_escalates, at_save, mgrVars, poolVars, wfVars, cloudVars, fetcherVars, pc,
                   caller, loopVars, rotVars, outVars, histVars>>

\* One fetcher records attempts while time passes; the tracker is saved now
\* and then, and the process may restart from the saved document.  The
\* daemon keeps one circuit, which exits through address 1.
InitPersist ==
    /\ InitEnv({})
    /\ tracker = EmptyTracker
    /\ persisted = Save(tracker)
    /\ at_save = tracker
    /\ NoManager
    /\ worker_id = [w \in Workers |-> w]
    /\ tor_port = [w \in Workers |-> IF w = 0 THEN DefaultSocksPort ELSE 0]
    /\ tor_control_port = [w \in Workers |-> IF w = 0 THEN DefaultControlPort ELSE 0]
    /\ control_port_available = [w \in Workers |-> TRUE]
    /\ coordination_lock = [w \in Workers |-> None]
    /\ pc = [w \in Workers |-> IF w = 0 THEN "idle" ELSE "off"]
    /\ InitFrames
    /\ NoPool
    /\ NoWorkflow
    /\ NoCloud

NextPersist ==
    \/ \E w \in Workers : RecordAttemptCall(w)
    \/ Tick
    \/ SaveTracker
    \/ Reload

SpecPersist ==
    InitPersist /\ [][NextPersist]_vars

\* The identity pool alone: started with some target size, filled, and
\* drained by the workers, one call more than the target at most.
InitPool ==
    /\ InitEnv({})
    /\ tracker = EmptyTracker
    /\ persisted = Save(tracker)
    /\ at_save = tracker
    /\ NoManager
    /\ worker_id = [w \in Workers |-> w]
    /\ tor_port = [w \in Workers |-> 0]
    /\ tor_control_port = [w \in Workers |-> 0]
    /\ control_port_available = [w \in Workers |-> TRUE]
    /\ coordination_lock = [w \in Workers |-> None]
    /\ pc = [w \in Workers |-> "off"]
    /\ InitFrames
    /\ NoPool
    /\ NoWorkflow
    /\ NoCloud

NextPool ==
    \/ QueueStart
    \/ QueueAllocate
    \/ \E w \in Workers : GetNextConnection(w)

SpecPool ==
    InitPool /\ [][NextPool]_vars

\* One video goes through the workflow.
InitWorkflow ==
    /\ InitEnv({})
    /\ tracker = EmptyTracker
    /\ persisted = Save(tracker)
    /\ at_save = tracker
    /\ NoManager
    /\ worker_id = [w \in Workers |-> w]
    /\ tor_port = [w \in Workers |-> 0]
    /\ tor_control_port = [w \in Workers |-> 0]
    /\ control_port_available = [w \in Workers |-> TRUE]
    /\ coordination_lock = [w \in Workers |-> None]
    /\ pc = [w \in Workers |-> "off"]
    /\ InitFrames
    /\ NoPool
    /\ NoWorkflow
    /\ NoCloud

NextWorkflow ==
    \/ StartWorkflow
    \/ FetchTranscriptNode
    \/ CategorizeNode
    \/ GenerateNotesNode
    \/ GenerateAssessmentNode
    \/ WriteFilesNode
    \/ ObsidianLinksNode
    \/ ExportPdfNode
    \/ LogJobNode
    \/ InvalidUrl
    \/ ProcessSingleUrlReturn

SpecWorkflow ==
    InitWorkflow /\ [][NextWorkflow]_vars

\* Stripe delivers the payment_intent.succeeded event of one payment intent
\* several times, to concurrent invocations of the webhook handler.
InitWebhook ==
    /\ InitEnv({})
    /\ tracker = EmptyTracker
    /\ persisted = Save(tracker)
    /\ at_save = tracker
    /\ NoManager
    /\ worker_id = [w \in Workers |-> w]
    /\ tor_port = [w \in Workers |-> 0]
    /\ tor_control_port = [w \in Workers |-> 0]
    /\ control_port_available = [w \in Workers |-> TRUE]
    /\ coordination_lock = [w \in Workers |-> None]
    /\ pc = [w \in Workers |-> "off"]
    /\ InitFrames
    /\ NoPool
    /\ NoWorkflow
    /\ NoCloud

NextWebhook ==
    \E i \in Invocations :
        \/ WebhookReceive(i)
        \/ AddCreditsCheck(i)
        \/ AddCreditsUpdate(i)
        \/ AddCreditsPut(i)

SpecWebhook ==
    InitWebhook /\ [][NextWebhook]_vars

\* One user with some credits sends concurrent submit_video requests.
InitSubmit ==
    /\ InitEnv({})
    /\ tracker = EmptyTracker
    /\ persisted = Save(tracker)
    /\ at_save = tracker
    /\ NoManager
    /\ worker_id = [w \in Workers |-> w]
    /\ tor_port = [w \in Workers |-> 0]
    /\ tor_control_port = [w \in Workers |-> 0]
    /\ control_port_available = [w \in Workers |-> TRUE]
    /\ coordination_lock = [w \in Workers |-> None]
    /\ pc = [w \in Workers |-> "off"]
    /\ InitFrames
    /\ NoPool
    /\ NoWorkflow
    /\ user_credits \in 0..MaxCredits
    /\ credits_table = {}
    /\ videos_table = {}
    /\ video_queue = <<>>
    /\ lam = [i \in Invocations |-> IdleInvocation]
    /\ proc = IdleProcess

\* process_video handling one queue message.
InitProcess ==
    InitWebhook

NextProcess ==
    \/ ProcessReceive
    \/ CliEvent
    \/ CliExit
    \/ ProcessUpload
    \/ ProcessSave
    \/ ProcessComplete
    \/ ProcessFail

SpecProcess ==
    InitProcess /\ [][NextProcess]_vars

NextSubmit ==
    \E i \in Requests :
        \/ SubmitReceive(i)
        \/ SubmitLookup(i)
        \/ SubmitReadCredits(i)
        \/ SubmitDeduct(i)
        \/ SubmitPut(i)
        \/ SubmitSend(i)

SpecSubmit ==
    InitSubmit /\ [][NextSubmit]_vars

\* A pool that has allocated its one connection; the worker that pulls it
\* builds a fetcher for it and rotates.
InitPreconfig ==
    /\ InitEnv({DefaultSocksPort})
    /\ tracker = EmptyTracker
    /\ persisted = Save(tracker)
    /\ at_save = tracker
    /\ NoManager
    /\ worker_id = [w \in Workers |-> w]
    /\ tor_port = [w \in Workers |-> 0]
    /\ tor_control_port = [w \in Workers |-> 0]
    /\ control_port_available = [w \in Workers |-> TRUE]
    /\ coordination_lock = [w \in Workers |-> None]
    /\ pc = [w \in Workers |-> "off"]
    /\ InitFrames
    /\ ip_queue = [started |-> TRUE, target_size |-> 1,
                   queue |-> <<circuit[DefaultSocksPort]>>,
                   allocated_ips |-> {circuit[DefaultSocksPort]}, allocated |-> 1,
                   failed_attempts |-> 0, allocation_complete |-> TRUE]
    /\ pulled_ips = <<>>
    /\ NoWorkflow
    /\ NoCloud

NextPreconfig ==
    \E w \in Workers :
        \/ GetNextConnection(w)
        \/ PreconfigFetcher(w)
        \/ LegacyFetcher(w)
        \/ RotateCall(w)
        \/ Rotate(w)

SpecPreconfig ==
    InitPreconfig /\ [][NextPreconfig]_vars

\* ============================================================== claims
ViaFallback(w) ==
    caller[w] \in {"fallback", "provider"}
AfterLoop(w) ==
    pc[w] \in {"final_save", "fetch_ret", "fallback", "provider_ret", "done"}
\* The availability check passed and the loop ended without a success.
AllPrimaryFailed(w) ==
    is_available[w] = "yes" /\ AfterLoop(w) /\ ~primaryOk[w]
Returned(w) ==
    pc[w] \in {"provider_ret", "done"}

\* C1: with max_retries = n, the availability check passed and every primary
\* attempt failing, each attempt is recorded exactly once, fetch_transcript
\* ends with exactly n records, and fetch_with_fallback calls the yt-dlp
\* fallback exactly once, never before all n attempts are recorded.
C1_ExhaustionThenOneFallback ==
    \A w \in Workers :
        /\ (is_available[w] = "yes" /\ pc[w] = "loop") => nrec[w] = loop_i[w]
        /\ AllPrimaryFailed(w) => nrec[w] = max_retries[w]
        /\ (is_available[w] = "yes" /\ ~primaryOk[w] /\ secondaryCalls[w] > 0)
              => (nrec[w] = max_retries[w] /\ secondaryCalls[w] = 1)
        /\ (AllPrimaryFailed(w) /\ ViaFallback(w) /\ Returned(w))
              => secondaryCalls[w] = 1

C1_Witness ==
    \E w \in Workers :
        /\ caller[w] = "fallback" /\ pc[w] = "done" /\ AllPrimaryFailed(w)
        /\ nrec[w] = DefaultMaxRetries /\ secondaryCalls[w] = 1

\* C2: when the availability check reports the resource unavailable,
\* fetch_with_fallback returns no result, nothing is recorded in the tracker,
\* no rotation is performed and the yt-dlp fallback is never invoked.
C2_UnavailableFailsFast ==
    \A w \in Workers :
        (is_available[w] = "no" /\ ViaFallback(w))
            => /\ nrec[w] = 0
               /\ rotEnd[w] = "none"
               /\ secondaryCalls[w] = 0
               /\ (Returned(w) => result[w] = "none")

\* Worker w made a retry attempt, whose outcome is being probed or about to
\* be recorded.
RetryMade(w) ==
    /\ pc[w] \in {"probe_failure", "probe_success", "record_failure", "record_success"}
    /\ loop_i[w] > 0

\* A retry attempt was made through an address that has a recorded failure.
RetriedThroughFailedIp(w) ==
    /\ RetryMade(w)
    /\ usedIp[w] \in FailedIpsToday(tracker)

InRotation(w) ==
    pc[w] \in {"rot_connect", "rot_signal", "rot_wait", "rot_probe"}

SameInstance(w1, w2) ==
    w1 # w2 /\ tor_port[w1] # 0 /\ tor_port[w1] = tor_port[w2]

\* C4: two workers the manager bound to the same instance are never both
\* inside a rotation on that instance.
C4_RotationsMutuallyExclusive ==
    \A w1, w2 \in Workers :
        SameInstance(w1, w2) => ~(InRotation(w1) /\ InRotation(w2))

\* C5: on one instance no NEWNYM is sent while the previous one is unsettled:
\* after every NEWNYM its sender, holding the coordination lock, completes a
\* wait of at least max(daemon minimum, 3) before anyone sends the next.
C5_SettleWaitBetweenNewnyms ==
    /\ ~newnymRace
    /\ \A p \in SocksPorts :
          lastNewnym[p] = "unsettled"
             => \E w \in Workers :
                    tor_port[w] = p /\ pc[w] = "rot_wait" /\ lockHolder[p] = w

\* Two workers have sent NEWNYM to the same instance, and the later of them
\* has just finished the wait after a repeated NEWNYM of its own loop.
C5_Witness ==
    \E w1, w2 \in Workers :
        /\ SameInstance(w1, w2)
        /\ {w1, w2} \subseteq signallers[tor_port[w1]]
        /\ pc[w1] = "rot_probe" /\ rotation_attempts[w1] >= 1
        /\ lastNewnym[tor_port[w1]] = "settled"

\* C6: degraded mode is one-way.  Once _control_port_available is False it
\* stays False, no step opens the control channel or signals NEWNYM for that
\* fetcher, and a rotate_tor_circuit call returns False at once.
C6_DegradedIsOneWay ==
    [][\A w \in Workers :
          ~control_port_available[w]
             => /\ ~control_port_available'[w]
                /\ pc'[w] \notin {"rot_lock", "rot_connect", "rot_signal",
                                  "rot_wait", "rot_probe"}
                /\ (pc[w] = "rot_entry"
                      => /\ pc'[w] \in {"post_rot", "idle"}
                         /\ ~rotation_success'[w]
                         /\ circuit' = circuit)]_vars

C6_Witness ==
    \E w \in Workers :
        /\ ~control_port_available[w]
        /\ pc[w] = "post_rot" /\ rotEnd[w] = "skipped" /\ ~rotation_success[w]

\* C7: fetch_with_fallback returns 'tor' exactly when a primary attempt
\* succeeded, 'yt-dlp' exactly when none succeeded and the fallback returned
\* a transcript, and nothing exactly when both failed; the fallback is never
\* called after a primary success.
C7_ResultTaggedByMethod ==
    \A w \in Workers :
        /\ primaryOk[w] => secondaryCalls[w] = 0
        /\ (ViaFallback(w) /\ Returned(w))
              => /\ result[w] = "tor" <=> primaryOk[w]
                 /\ result[w] = "yt-dlp"
                       <=> (~primaryOk[w] /\ secondaryCalls[w] = 1
                            /\ ytdlp_result[w] = "transcript")
                 /\ result[w] = "none"
                       <=> (~primaryOk[w] /\ secondaryCalls[w] = 1
                            /\ ytdlp_result[w] = "none")

C7_Witness ==
    \E w \in Workers :
        /\ caller[w] = "fallback" /\ pc[w] = "done" /\ result[w] = "yt-dlp"
        /\ nrec[w] = DefaultMaxRetries /\ ~primaryOk[w]

BothFailed(w) ==
    ViaFallback(w) /\ ~primaryOk[w] /\ ytdlp_result[w] = "none"

\* C8 as stated: when primary and fallback both fail, every consumer path
\* (fetch_with_fallback, TorTranscriptProvider.get_transcript) ends with an
\* absent result and without an exception.
C8_TotalFailureNeverRaises ==
    \A w \in Workers :
        (BothFailed(w) /\ pc[w] = "done") => (result[w] = "none" /\ ~raised[w])

\* C8 amended: when both fail, fetch_with_fallback returns an absent result
\* and raises nothing; TorTranscriptProvider.get_transcript turns that absent
\* result into a raised exception.  Nothing else raises.
C8_AbsentFromEngineRaisedByProvider ==
    \A w \in Workers :
        /\ (BothFailed(w) /\ Returned(w)) => result[w] = "none"
        /\ (BothFailed(w) /\ pc[w] = "provider_ret") => ~raised[w]
        /\ (BothFailed(w) /\ pc[w] = "done")
              => (raised[w] <=> caller[w] = "provider")
        /\ raised[w] => (BothFailed(w) /\ caller[w] = "provider")

C8_Witness ==
    \E w \in Workers :
        /\ BothFailed(w) /\ pc[w] = "done" /\ caller[w] = "fallback"
        /\ is_available[w] = "yes" /\ result[w] = "none" /\ ~raised[w]

\* C9: for every identity, "unknown" included, use_count is the sum of
\* success_count and fail_count after any sequence of recorded attempts.
C9_UseCountIsSum ==
    \A i \in Identities :
        tracker[i].use_count = tracker[i].success_count + tracker[i].fail_count

\* Two workers have recorded; "unknown" and an address with both a success
\* and a failure are among the identities.
C9_Witness ==
    /\ \A w \in Workers : w <= 1 => nrec[w] >= 1
    /\ tracker[Unknown].use_count >= 1
    /\ \E i \in IPs : tracker[i].success_count >= 1 /\ tracker[i].fail_count >= 1

\* Length of the longest run of reachable probed ports that starts at
\* base_socks_port and has at most max_instances ports.
RunLength(args, open) ==
    CHOOSE k \in 0..args.max_instances :
        /\ \A j \in 0..(k - 1) : SocksPortAt(args, j) \in open
        /\ k = args.max_instances \/ SocksPortAt(args, k) \notin open

\* The instances of that run.
ReachableRun(args, open) ==
    [i \in 1..RunLength(args, open) |->
        TorInstance(i, SocksPortAt(args, i - 1), ControlPortAt(args, i - 1))]

Discovered ==
    constructed

\* C10 as stated: for every reachability pattern, discovery returns exactly
\* the instances of the longest contiguous run of reachable ports starting
\* at the base port.
C10_DiscoveryIsReachableRun ==
    Discovered => instances = ReachableRun(mgrArgs, openPorts)

\* C10 amended: when the base port is reachable, discovery returns exactly
\* the instances of the longest contiguous run of reachable ports starting
\* at the base port (at most max_instances), whatever lies beyond the first
\* gap; when the base port is unreachable it returns the one default
\* instance.
C10_ReachableRunOrDefault ==
    Discovered =>
        IF IsPortOpen(openPorts, mgrArgs.base_socks_port)
        THEN instances = ReachableRun(mgrArgs, openPorts)
        ELSE instances = <<TorInstance(1, DefaultSocksPort, DefaultControlPort)>>

\* Ports 9050 and 9052 are open, 9054 is closed, 9056 beyond the gap is open
\* and within max_instances: two instances are returned.
C10_Witness ==
    /\ Discovered
    /\ mgrArgs.base_socks_port = DefaultSocksPort
    /\ mgrArgs.port_increment = DefaultPortIncrement
    /\ mgrArgs.max_instances >= 4
    /\ openPorts = {SocksPortAt(mgrArgs, 0), SocksPortAt(mgrArgs, 1),
                    SocksPortAt(mgrArgs, 3)}
    /\ Len(instances) = 2

\* Ports the manager probes at most: one per iteration of its loop.
AllProbedPorts(args) ==
    {SocksPortAt(args, i) : i \in 0..(args.max_instances - 1)}

DefaultInstance ==
    TorInstance(1, DefaultSocksPort, DefaultControlPort)

\* C11: discovery never yields an empty list; when no probed port is
\* reachable it yields exactly the default instance, and the index computed
\* for any worker id falls inside the list.
C11_NeverEmptyDefaultWhenNoneReachable ==
    Discovered =>
        /\ Len(instances) >= 1
        /\ (AllProbedPorts(mgrArgs) \cap openPorts = {})
              => instances = <<DefaultInstance>>
        /\ \A id \in 0..(MaxWorkerId + NumWorkers) :
              InstanceIdx(id, instances) + 1 \in DOMAIN instances

\* No probed port is reachable, and a worker has got its fetcher on the
\* default instance.
C11_Witness ==
    /\ Discovered
    /\ openPorts = {}
    /\ mgrArgs.base_socks_port # DefaultSocksPort
    /\ \E w \in Workers : nfetchers[w] >= 1 /\ tor_port[w] = DefaultSocksPort

\* The instance get_fetcher_for_worker is bound to yield for worker w.
BoundInstance(w) ==
    instances[(worker_id[w] % Len(instances)) + 1]

\* C12: a worker holding a fetcher is bound to the instance whose
\* instance_id is (worker_id mod n) + 1, whether it asked once or again:
\* its fetcher has that instance's data and control ports.
C12_BoundToWorkerIdModN ==
    \A w \in Workers :
        nfetchers[w] >= 1 =>
            /\ BoundInstance(w).instance_id = (worker_id[w] % Len(instances)) + 1
            /\ tor_port[w] = BoundInstance(w).socks_port
            /\ tor_control_port[w] = BoundInstance(w).control_port

\* A worker whose id exceeds the instance count asked twice and is on the
\* second of two or more instances.
C12_Witness ==
    \E w \in Workers :
        /\ nfetchers[w] = 2
        /\ Len(instances) >= 2
        /\ worker_id[w] >= Len(instances)
        /\ worker_id[w] % Len(instances) = 1
        /\ tor_port[w] = instances[2].socks_port

\* ------------------------------------------------------------ identity pool
\* start() completed with the whole target allocated.
StartSucceeded ==
    /\ ip_queue.allocation_complete
    /\ ip_queue.allocated = ip_queue.target_size

\* The indices of the calls that returned a connection.
Handed ==
    {i \in 1..Len(pulled_ips) : pulled_ips[i].exit_ip # NoIp}

\* C13: after start(target_size = k) completed successfully, the first k
\* get_next_connection calls each return a connection, and the k identities
\* returned are pairwise distinct.
C13_KAcquiresKDistinct ==
    StartSucceeded =>
        \A i, j \in 1..Len(pulled_ips) :
            (i <= ip_queue.target_size /\ j <= ip_queue.target_size) =>
                /\ pulled_ips[i].exit_ip \in IPs
                /\ (i # j => pulled_ips[i].exit_ip # pulled_ips[j].exit_ip)

C13_Witness ==
    /\ StartSucceeded
    /\ ip_queue.target_size = 3
    /\ Len(pulled_ips) = 3
    /\ {pulled_ips[i].exit_ip : i \in 1..3} = {1, 2, 3}

\* C14: over any sequence of get_next_connection calls by any workers, no
\* identity is returned twice, a connection handed out is no longer in the
\* queue, no more connections are handed out than were allocated, and a call
\* on the drained queue returns no connection.
C14_NeverHandedTwice ==
    /\ \A i, j \in Handed : i # j => pulled_ips[i].exit_ip # pulled_ips[j].exit_ip
    /\ \A i \in Handed : \A k \in 1..Len(ip_queue.queue) :
           ip_queue.queue[k] # pulled_ips[i].exit_ip
    /\ Cardinality(Handed) <= ip_queue.allocated
    /\ \A i \in 1..Len(pulled_ips) : i > ip_queue.allocated => pulled_ips[i].exit_ip = NoIp

C14_Witness ==
    /\ ip_queue.allocated >= 2
    /\ Len(pulled_ips) = ip_queue.allocated + 1
    /\ pulled_ips[Len(pulled_ips)].exit_ip = NoIp
    /\ pulled_ips[1].worker_id # pulled_ips[2].worker_id

\* ------------------------------------------------- sequential attempts
\* Positions of fetch_transcript inside one iteration of the attempt loop,
\* before the iteration's api.fetch has returned.
BeforeOutcome ==
    {"loop", "rot_entry", "rot_lock", "rot_connect", "rot_signal", "rot_wait",
     "rot_probe", "post_rot", "penalty", "backoff", "fetch"}

\* C15: within one fetch, attempt N+1, with the rotation and the backoff
\* that precede it, never starts before attempt N's outcome has been
\* recorded in the tracker: whenever the loop is at or inside iteration i, not
\* yet past its api.fetch, exactly the i earlier attempts have been recorded;
\* and once an attempt has failed the loop advances only after its record.
C15_AttemptsStrictlySequential ==
    \A w \in Workers :
        caller[w] # "rotate" =>
            /\ (pc[w] \in BeforeOutcome /\ is_available[w] = "yes")
                  => nrec[w] = loop_i[w]
            /\ pc[w] \in {"probe_failure", "probe_success",
                          "record_failure", "record_success"} => nrec[w] = loop_i[w]
            /\ pc[w] = "attempt_failed" => nrec[w] = loop_i[w] + 1

C15_Witness ==
    \E w \in Workers :
        /\ pc[w] = "backoff"
        /\ loop_i[w] = 2
        /\ nrec[w] = 2
        /\ persisted # Save(tracker)

\* ------------------------------------------------- tracker persistence
\* The identities that have a record.
KnownIdentities(tr) ==
    {i \in Identities : tr[i].use_count > 0}

C17_SaveFailureKeepsOutcome ==
    \A w \in Workers :
        caller[w] # "rotate" =>
            /\ primaryOk[w] =>
                  /\ pc[w] \in {"save_success", "fetch_ret", "provider_ret", "done"}
                  /\ nrec[w] = loop_i[w] + 1
                  /\ secondaryCalls[w] = 0
                  /\ ~raised[w]
                  /\ pc[w] # "save_success" => fetchResult[w] = "tor"
                  /\ pc[w] = "done" => result[w] = "tor"
            /\ (pc[w] = "done" /\ ~primaryOk[w] /\ is_available[w] = "yes") =>
                  /\ nrec[w] = max_retries[w]
                  /\ caller[w] # "fetch" => secondaryCalls[w] = 1
                  /\ raised[w] => (caller[w] = "provider" /\ result[w] = "none")

\* ------------------------------------------------- accepting a new identity
\* Worker w's rotation has sent its first NEWNYM and waited; the failed set
\* it read has two identities and the new circuit exits through a third.
FirstSignalGaveFreshIp(w) ==
    /\ pc[w] = "rot_probe"
    /\ caller[w] # "rotate"
    /\ rot_attempt[w] = 0
    /\ rotation_attempts[w] = 0
    /\ Cardinality(failed_ips[w]) = 2
    /\ circuit[tor_port[w]] \notin failed_ips[w]

\* C18: if the tracker's failed-today set is {A, B} and the first NEWNYM of
\* a rotation yields an identity C outside it, the rotation returns success
\* right after the probe: no second NEWNYM is signalled.
C18_FreshIdentityAcceptedAtOnce ==
    [][\A w \in Workers :
          (FirstSignalGaveFreshIp(w) /\ pc'[w] # pc[w])
             => /\ pc'[w] = "post_rot"
                /\ rotation_success'[w]
                /\ rotEnd'[w] \in {"confirmed", "unverified"}
                /\ circuit' = circuit
                /\ signallers' = signallers]_vars

C18_Witness ==
    \E w \in Workers :
        /\ FirstSignalGaveFreshIp(w)
        /\ failed_ips[w] = {1, 2}
        /\ FailedIpsToday(tracker) = {1, 2}
        /\ circuit[tor_port[w]] = 3
        /\ lastNewnym[tor_port[w]] = "settled"

\* ------------------------------------------------- pre-configured fetcher
\* C19 (as claimed): a fetcher constructed with a pooled session, proxy
\* configuration and exit identity never rotates; the construction gives a
\* fetcher, and the worker holding the pooled connection never signals a new
\* identity, so the connection keeps the identity it was pulled with.
C19_PreconfiguredNeverRotates ==
    \A w \in Workers :
        HasConnection(w) =>
            /\ pc[w] # "type_error"
            /\ \A p \in SocksPorts : w \notin signallers[p]
            /\ \A i \in 1..Len(pulled_ips) :
                   (pulled_ips[i].worker_id = w /\ pulled_ips[i].exit_ip # NoIp /\ tor_port[w] # 0)
                       => circuit[tor_port[w]] = pulled_ips[i].exit_ip

\* ------------------------------------------------- workflow routing
\* C20 (as claimed): in every run each optional node executes iff its
\* routing predicate held on the state leaving the preceding node: once the
\* edge chose the node, the node runs before the workflow moves on; when the
\* edge skipped it, it never runs and the next mandatory node is entered.
C20_OptionalNodeRunsIffRouted ==
    \A n \in OptionalNodes :
        /\ (wf.decided[n] = "yes" /\ wf.node # n) => n \in wf.executed
        /\ n \in wf.executed => wf.decided[n] = "yes"
        /\ wf.decided[n] = "no" => n \notin wf.invoked
        /\ (wf.decided["categorize"] = "no" /\ wf.decided["generate_assessment"] = "undecided")
              => wf.node \in {"generate_notes", "aborted"}
        /\ (wf.decided["categorize"] # "undecided" /\ wf.subject # "detected")
              => (wf.decided["categorize"] = "yes"
                     <=> (wf.auto_categorize /\ ~Truthy(wf.subject)))
        /\ wf.decided["generate_assessment"] # "undecided"
              => (wf.decided["generate_assessment"] = "yes" <=> wf.generate_assessment)
        /\ wf.decided["export_pdf"] # "undecided"
              => (wf.decided["export_pdf"] = "yes" <=> wf.export_pdf)

\* ------------------------------------------------- webhook idempotency
\* C21 (as claimed): for any number of deliveries of the same
\* payment_intent.succeeded event, sequential or concurrent, the user's
\* balance increases by the purchased amount exactly once: it is never more
\* than one purchase above where it started, and it is exactly one purchase
\* above once a delivery has been answered as processed.
C21_CreditedExactlyOnce ==
    /\ user_credits \in {0, PaymentIntent.credits}
    /\ (\E i \in Invocations : lam[i].pc = "done" /\ lam[i].processed)
          => user_credits = PaymentIntent.credits

\* --------------------------------------------- credits never negative
\* C22: under any interleaving of concurrent submit_video requests of one
\* user the balance is never negative: deduct_credits takes the credit only
\* if the balance at the moment of the update is at least the amount, and
\* otherwise returns False (or raises) leaving the balance unchanged.
C22_BalanceNeverNegative ==
    /\ [](user_credits >= 0)
    /\ [][\A i \in Requests :
             (lam[i].pc = "deduct" /\ lam'[i].pc # "deduct") =>
                 IF lam'[i].deducted = "True"
                 THEN user_credits >= 1 /\ user_credits' = user_credits - 1
                 ELSE /\ user_credits' = user_credits
                      /\ lam'[i].deducted = "False" => user_credits < 1]_vars

\* Two requests both read a balance of one; the first takes the credit and
\* the second's deduct_credits returned False although it had read one.
C22_Witness ==
    \E i, j \in Requests :
        /\ i # j
        /\ lam[i].deducted = "True"
        /\ lam[j].deducted = "False"
        /\ lam[j].credits >= 1
        /\ user_credits = 0

\* ------------------------------------------- recorded attempt numbers
\* C23 (as claimed): the k-th primary attempt of a fetch (k = 1..max_retries,
\* the loop index plus one) is recorded with attempt_number = k, whether
\* it succeeded or failed.
C23_RecordedWithAttemptNumber ==
    \A w \in Workers :
        lastRec[w] # NoRecord => lastRec[w].attempt = loop_i[w] + 1

\* ---------------------------------------------- what precedes an attempt
\* C24: no rotation or backoff precedes the first attempt of fetch_transcript;
\* every later attempt is preceded, in this order, by exactly one rotation
\* call, then a penalty wait of 10 x attempt index only if that rotation
\* returned failure, then the exponential backoff wait.
C24_PreludeOfAttempt ==
    \A w \in Workers :
        pc[w] = "fetch" =>
            prelude[w] =
                IF loop_i[w] = 0 THEN <<>>
                ELSE IF rotation_success[w]
                     THEN <<[step |-> "rotate", seconds |-> 0],
                            [step |-> "backoff", seconds |-> 2 ^ loop_i[w]]>>
                     ELSE <<[step |-> "rotate", seconds |-> 0],
                            [step |-> "penalty", seconds |-> 10 * loop_i[w]],
                            [step |-> "backoff", seconds |-> 2 ^ loop_i[w]]>>

\* The third attempt is about to fetch after a rotation that failed: a
\* penalty of 20 and then the backoff preceded it.
C24_Witness ==
    \E w \in Workers :
        /\ pc[w] = "fetch"
        /\ loop_i[w] = 2
        /\ ~rotation_success[w]
        /\ Len(prelude[w]) = 3
        /\ nrec[w] = 2

\* ------------------------------------------------ entering degraded mode
\* C25: during one rotation call, degraded mode is entered for connection
\* errors of the control channel only after max_retries connection attempts
\* have all failed (an earlier connection error is retried and changes
\* nothing), and for any other error at once, without retry; in both cases
\* the call returns, with False.
C25_DegradedModeEntry ==
    [][\A w \in Workers :
          /\ (control_port_available[w] /\ ~control_port_available'[w]) =>
                /\ pc[w] \in {"rot_connect", "rot_signal"}
                /\ pc'[w] \in {"post_rot", "idle"}
                /\ pc'[w] = "post_rot" =>
                      /\ ~rotation_success'[w]
                      /\ rotEnd'[w] \in {"unreachable", "error"}
                      /\ rotEnd'[w] = "unreachable" =>
                            rot_attempt[w] + 1 = RotMaxRetries
          /\ (pc[w] \in {"rot_connect", "rot_signal"} /\ pc'[w] = "rot_connect") =>
                /\ rot_attempt'[w] = rot_attempt[w] + 1
                /\ rot_attempt'[w] < RotMaxRetries
                /\ control_port_available'[w] = control_port_available[w]
          /\ (pc'[w] = "post_rot" /\ pc[w] # "post_rot"
                 /\ rotEnd'[w] \in {"unreachable", "error"}) =>
                ~control_port_available'[w]]_vars

\* A rotation called by a retry gave up after its last connection attempt
\* failed, and left the fetcher in degraded mode.
C25_Witness ==
    \E w \in Workers :
        /\ pc[w] = "post_rot"
        /\ rotEnd[w] = "unreachable"
        /\ ~rotation_success[w]
        /\ ~control_port_available[w]

\* ------------------------------------------- signals of one rotate call
\* C26 (as claimed): a single rotate call issues at most
\* max_rotation_attempts new-identity signals in total, counting every
\* signal sent during the call across all its connection attempts.
C26_SignalsPerCall ==
    \A w \in Workers : newnym_sent[w] <= MaxRotationAttempts

\* The signals sent over the current control connection: one per failed
\* address seen, and the one whose new address has not been judged yet.
SignalsOnConnection(w) ==
    rotation_attempts[w] + (IF pc[w] \in {"rot_wait", "rot_probe"} THEN 1 ELSE 0)

\* C26 (amended): over each control-channel connection a rotate call sends
\* at most max_rotation_attempts new-identity signals; the count starts
\* again with every new connection attempt, so the call as a whole sends at
\* most max_retries x max_rotation_attempts.
C26_SignalsPerConnection ==
    \A w \in Workers :
        /\ SignalsOnConnection(w) <= MaxRotationAttempts
        /\ newnym_sent[w] <= RotMaxRetries * MaxRotationAttempts

\* A call is on a later connection attempt and has already sent more
\* signals than max_rotation_attempts.
C26_Witness ==
    \E w \in Workers :
        /\ pc[w] = "rot_probe"
        /\ rot_attempt[w] >= 1
        /\ newnym_sent[w] > MaxRotationAttempts
        /\ SignalsOnConnection(w) = MaxRotationAttempts

\* ------------------------------------------ rotation with a failed probe
\* C27: if the identity probe fails after a new-identity signal and its
\* settle wait, the rotation returns success at once, without further
\* signals and without entering degraded mode, and the following attempt
\* proceeds with no penalty delay.
C27_UnverifiedRotationSucceeds ==
    /\ [][\A w \in Workers :
             (pc[w] = "rot_probe" /\ rotEnd'[w] = "unverified") =>
                 /\ newnym_sent[w] >= 1
                 /\ lastNewnym[tor_port[w]] = "settled"
                 /\ pc'[w] = "post_rot"
                 /\ rotation_success'[w]
                 /\ circuit' = circuit
                 /\ control_port_available'[w]]_vars
    /\ [](\A w \in Workers :
             rotEnd[w] = "unverified" =>
                 /\ rotation_success[w]
                 /\ control_port_available[w]
                 /\ pc[w] \in {"post_rot", "backoff", "fetch", "probe_success",
                               "probe_failure", "record_success", "record_failure"}
                 /\ \A k \in 1..Len(prelude[w]) : prelude[w][k].step # "penalty")

\* A retry is about to fetch after a rotation whose probe failed: only the
\* rotation and the backoff preceded it.
C27_Witness ==
    \E w \in Workers :
        /\ pc[w] = "fetch"
        /\ loop_i[w] >= 1
        /\ rotEnd[w] = "unverified"
        /\ Len(prelude[w]) = 2

\* --------------------------------------------- one record per attempt
\* The step in which worker w's handler records the attempt just made.
RecordsAttempt(w) ==
    pc[w] \in {"record_failure", "record_success"} /\ pc'[w] # pc[w]

\* C28: every primary attempt, success or failure, produces exactly one
\* tracker record even when the identity cannot be probed; in that case the
\* record carries the identity "unknown", otherwise the probed address; the
\* tracker changes in no other step, so no record is dropped or duplicated.
C28_OneRecordPerAttempt ==
    [][/\ \A w \in Workers :
             RecordsAttempt(w) =>
                 LET rec == lastRec'[w]
                 IN  /\ nrec'[w] = nrec[w] + 1
                     /\ tracker'[rec.exit_ip].use_count =
                           tracker[rec.exit_ip].use_count + 1
                     /\ \A ip \in Identities \ {rec.exit_ip} : tracker'[ip] = tracker[ip]
                     /\ rec.success = (pc[w] = "record_success")
                     /\ tracker'[rec.exit_ip].success_count =
                           tracker[rec.exit_ip].success_count
                              + (IF rec.success THEN 1 ELSE 0)
                     /\ rec.exit_ip = IF rec.probed = "nobody" THEN Unknown
                                      ELSE circuit[tor_port[w]]
       /\ (tracker' # tracker \/ nrec' # nrec) => \E w \in Workers : RecordsAttempt(w)
       /\ \A w \in Workers :
             /\ (pc[w] = "fetch" /\ pc'[w] # "fetch") =>
                   pc'[w] \in {"probe_failure", "probe_success"}
             /\ (pc[w] = "probe_failure" /\ pc'[w] # pc[w]) => pc'[w] = "record_failure"
             /\ (pc[w] = "probe_success" /\ pc'[w] # pc[w]) => pc'[w] = "record_success"]_vars

\* A failed attempt whose identity neither probe could tell has been
\* recorded under "unknown", after an earlier attempt was recorded under
\* its address.
C28_Witness ==
    \E w \in Workers :
        /\ pc[w] = "attempt_failed"
        /\ lastRec[w].probed = "nobody"
        /\ lastRec[w].exit_ip = Unknown
        /\ tracker[Unknown].fail_count = 1
        /\ nrec[w] = 2

\* ------------------------------------------- save after the last record
\* C29: whenever fetch_with_fallback returns after at least one primary
\* attempt was recorded (primary success, fallback success after primary
\* failure, or total failure), the tracker's save has been called after the
\* last attempt recorded by that fetch.
C29_SavedAfterLastRecord ==
    \A w \in Workers :
        (pc[w] \in {"provider_ret", "done"} /\ caller[w] \in {"fallback", "provider"}
            /\ nrec[w] >= 1)
           => saved[w]

\* fetch_with_fallback has returned the fallback's transcript after every
\* primary attempt failed and was recorded, and the tracker was saved since.
C29_Witness ==
    \E w \in Workers :
        /\ pc[w] = "done"
        /\ caller[w] = "fallback"
        /\ result[w] = "yt-dlp"
        /\ nrec[w] = DefaultMaxRetries
        /\ saved[w]

\* ------------------------------------------------------------ termination
\* Controller.from_port calls made so far by the rotation under way: the
\* index of "for attempt in range(max_retries)", and the call being made.
ConnectionAttempts(w) ==
    rot_attempt[w] + (IF pc[w] = "rot_connect" THEN 0 ELSE 1)

\* C30: every fetch_with_fallback call eventually returns, provided each
\* network call, wait, lock acquisition and the secondary fetcher return; it
\* performs at most max_retries primary attempts, at most max_retries - 1
\* rotation calls, each with at most max_retries (of rotate_tor_circuit)
\* connection attempts to the control channel, and at most one secondary
\* fetch.
C30_FetchTerminates ==
    /\ [](\A w \in Workers :
             ViaFallback(w) =>
                 /\ calls[w].fetch <= max_retries[w]
                 /\ calls[w].rotate <= max_retries[w] - 1
                 /\ pc[w] \in {"rot_connect", "rot_signal", "rot_wait", "rot_probe"}
                       => /\ rot_attempt[w] < RotMaxRetries
                          /\ ConnectionAttempts(w) <= RotMaxRetries
                 /\ secondaryCalls[w] <= 1)
    /\ (ViaFallback(0) /\ pc[0] = "check") ~> (pc[0] = "done")

\* A call that made every primary attempt and every rotation it may, and
\* the secondary fetch, has returned; its last rotation gave up after all
\* its connection attempts.
C30_Witness ==
    \E w \in Workers :
        /\ ViaFallback(w)
        /\ pc[w] = "done"
        /\ calls[w].fetch = max_retries[w]
        /\ calls[w].rotate = max_retries[w] - 1
        /\ ~control_port_available[w]
        /\ secondaryCalls[w] = 1

\* ------------------------------------- identity of an attempt in flight
\* C31 (as claimed): when several workers share one instance, the identity
\* recorded for an attempt, when a probe answered, is the identity the
\* instance's circuit had while the attempt was in flight, whatever the
\* other workers' rotations do between the attempt and its probe.
C31_RecordedIdentityIsTheOneUsed ==
    \A w \in Workers :
        (lastRec[w] # NoRecord /\ lastRec[w].probed # "nobody")
            => lastRec[w].exit_ip = lastRec[w].via

\* ------------------------------------------- ids and ports of instances
\* The instance at position i of the list has instance_id i.
IdsInListOrder ==
    \A i \in DOMAIN instances : instances[i].instance_id = i

\* The instance's ports are the base ports moved by (instance_id - 1)
\* increments.
PortsFollowBases(inst) ==
    /\ inst.socks_port = mgrArgs.base_socks_port
                            + (inst.instance_id - 1) * mgrArgs.port_increment
    /\ inst.control_port = mgrArgs.base_control_port
                            + (inst.instance_id - 1) * mgrArgs.port_increment

\* C32 (as claimed): every instance returned by discovery, the synthesized
\* default instance included, has its ports at the base ports plus
\* (instance_id - 1) increments, and the instance_ids are 1..n in list order.
C32_EveryInstanceFollowsBases ==
    Discovered =>
        /\ IdsInListOrder
        /\ \A i \in DOMAIN instances : PortsFollowBases(instances[i])

\* C32 (amended): the instance_ids are 1..n in list order; every instance
\* detected by a probe has its ports at the base ports plus (instance_id - 1)
\* increments; the synthesized default instance has instance_id 1 and the
\* ports 9050 and 9051 whatever the base ports are.
C32_DetectedFollowBasesDefaultIsFixed ==
    Discovered =>
        /\ IdsInListOrder
        /\ IF IsPortOpen(openPorts, mgrArgs.base_socks_port)
           THEN \A i \in DOMAIN instances : PortsFollowBases(instances[i])
           ELSE /\ Len(instances) = 1
                /\ instances[1].socks_port = DefaultSocksPort
                /\ instances[1].control_port = DefaultControlPort

\* Three instances were detected from a base port other than 9050 with the
\* increment 2.
C32_Witness ==
    /\ Discovered
    /\ mgrArgs.base_socks_port # DefaultSocksPort
    /\ mgrArgs.port_increment = DefaultPortIncrement
    /\ Len(instances) = 3
    /\ instances[3].control_port = mgrArgs.base_control_port + 4

\* ------------------------------------------ the list after the discovery
\* C33: after discovery the instance list never changes: no call of
\* get_fetcher_for_worker, get_instance_count, is_multi_instance or
\* get_stats changes the list or any instance's id, host or ports, whatever
\* daemons come or go in the meantime.
C33_InstancesImmutableAfterDiscovery ==
    [][constructed => instances' = instances]_vars

\* get_stats answered after a worker got its fetcher, at a time when the
\* reachable ports are no longer the ones the discovery saw, and it lists
\* the discovered instances.
C33_Witness ==
    /\ Discovered
    /\ mgr_out.call = "get_stats"
    /\ \E w \in Workers : nfetchers[w] >= 1
    /\ DetectInstances(mgrArgs, openPorts) # instances
    /\ mgr_out.tor_instances = Len(instances)
    /\ Len(instances) >= 2

\* ------------------------------------------------- repeated submissions
\* The user has a video record for this YouTube video.
HasRecordFor(v) ==
    \E r \in videos_table : r.youtube_video_id = v

\* C34 (as claimed): a submission of a URL the user already has a video
\* record for is answered with the existing record: its lookup never goes on
\* to the credit check, so it deducts no credit, creates no record and
\* enqueues no message, and one URL costs at most one credit.
C34_ExistingRecordIsFound ==
    [][\A i \in Requests :
          (lam[i].pc = "lookup" /\ lam'[i].pc = "read_credits")
              => ~HasRecordFor(lam[i].youtube_video_id)]_vars

\* ------------------------------------------- what a deducted credit buys
\* Request i left a queued video: its record is stored with status 'queued'
\* and its processing message is in the queue.
QueuedVideoOf(i) ==
    /\ \E r \in videos_table : r.video_id = lam[i].video_id /\ r.status = "queued"
    /\ \E k \in 1..Len(video_queue) : video_queue[k].video_id = lam[i].video_id

\* C35 (as claimed): every credit deducted by submit_video is matched by a
\* queued video record and an enqueued processing message: no request ends,
\* a failed record write or a failed enqueue included, with its credit
\* deducted and no queued video for it.
C35_DeductedCreditHasQueuedVideo ==
    \A i \in Requests :
        (lam[i].pc = "done" /\ lam[i].deducted = "True") => QueuedVideoOf(i)

\* ---------------------------------------------- progress of a video
\* C36 (as claimed): while process_video handles one queue message, the
\* progress values written to the video record never decrease, whatever
\* progress events the CLI reports.
C36_ProgressNonDecreasing ==
    \A k \in 1..(Len(proc.progress_written) - 1) :
        proc.progress_written[k] <= proc.progress_written[k + 1]

\* ------------------------------------------------ failures of the nodes
\* The nodes whose failure ends the workflow, and the ones whose failure is
\* only noted.
CriticalNodes ==
    {"fetch_transcript", "generate_notes", "write_files"}
NonCriticalNodes ==
    {"categorize", "generate_assessment", "obsidian_links", "export_pdf", "log_job"}

\* The node the workflow raised in, if any: it was called and did not return.
RaisedIn ==
    wf.invoked \ wf.executed

\* C37 (as claimed): a failure in fetch_transcript, generate_notes or
\* write_files aborts the workflow with failed = True and no later node
\* runs; a failure in categorize, generate_assessment, obsidian_links,
\* export_pdf or log_job is only noted and the remaining nodes run to the
\* end, so the workflow never aborts in one of these.
C37_OnlyCriticalFailuresAbort ==
    /\ (wf.node = "aborted" /\ RaisedIn # {}) =>
          (wf.failed /\ Cardinality(RaisedIn) = 1)
    /\ RaisedIn \subseteq CriticalNodes

\* ----------------------------------------- what the workflow call returns
\* process_video_with_langgraph has returned a state.
WorkflowReturned ==
    wf.node \in {"aborted", "END"}

\* Building the graph or executing it raised inside the try.
RaisedInTry ==
    RaisedIn # {} \/ wf.error = "KeyError"

\* C38: process_video_with_langgraph never raises: a call is at a node of
\* the graph until it returns a state, and the state it returns has exactly
\* one of completed and failed True, failed exactly when the workflow
\* (building the graph or executing it) raised.  Until it returns, neither
\* flag is set.
C38_CompletedXorFailed ==
    /\ wf.node \in {"none", "aborted", "END"} \cup CriticalNodes \cup NonCriticalNodes
    /\ WorkflowReturned =>
          /\ wf.completed # wf.failed
          /\ wf.failed <=> RaisedInTry
    /\ ~WorkflowReturned => (~wf.completed /\ ~wf.failed)

\* The workflow raised in generate_notes after the transcript was fetched,
\* and the failed state was returned.
C38_Witness ==
    /\ wf.node = "aborted"
    /\ wf.failed
    /\ ~wf.completed
    /\ RaisedIn = {"generate_notes"}
    /\ "fetch_transcript" \in wf.executed

\* ----------------------------------------------------- the job log
\* C39 (as claimed): every video processed through the workflow, whether it
\* completed or failed, has been logged by the job logger exactly once by
\* the time process_single_url returns.
C39_LoggedOnceAtReturn ==
    (wf.returned \in {"success", "failure"} /\ "fetch_transcript" \in wf.invoked)
        => wf.logged = 1

====
